---- MODULE Spec2Model ----
(***************************************************************************)
(* vitest-monocart-coverage: the Reporter (src/src/reporter.ts), the       *)
(* in-process adapter (src/src/provider.ts) and the browser adapter with   *)
(* the add queue (src/src/browser-provider.ts, lines 36-169), as one state *)
(* machine.  Every async function is a process; one action is one          *)
(* synchronous run of such a process between two suspension points.  The   *)
(* Report Engine (monocart-coverage-reports) is the environment: its       *)
(* construction, add() and generate() each succeed or fail.                *)
(***************************************************************************)
EXTENDS Integers, Sequences, FiniteSets, TLC

\* Bounds of the model: how many calls the host makes on an adapter in one
\* run, and how many calls a caller makes on the Reporter alone.
MaxCalls == 3
MaxDirectCalls == 2

\* The longest path part of a URL given to shouldIncludeUrl, in tokens.
MaxUrlTail == 3

\* The most entries in one coverage snapshot of the page, and the most
\* snapshots the collector is asked for.
MaxSnapshot == 2
MaxTakes == 2

\* The longest include list and exclude list given to createSourceFilter.
MaxPatterns == 2

\* The longest run of characters after the head of a path given to the
\* Reporter's source filter.
MaxFilterTail == 3

\* The number of startCoverage calls, and of takeCoverage calls, made on one
\* protocol session.
MaxStartCalls == 2
MaxSessionTakes == 2

\* The number of suites of any transform mode the in-process adapter is
\* given.
MaxModeSuites == 2

\* provider.ts:133, the default wrapper length.
WRAPPER_LENGTH == 185

VARIABLES
  adapter,                 \* which object is driven: "inproc", "browser" or "direct" (the Reporter itself)
  reporterPresent,         \* this.reporter of the adapter is set
  ctxCache,                \* the host's transform caches (ctx.vitenode / ctx.projects[].vitenode)
  mcr,                     \* MonocartReporter.mcr: "null" or "engine"
  mcrCreated,              \* number of engines MCR(config) has constructed
  coverageDataCollection,  \* MonocartReporter.coverageDataCollection
  engineLog,               \* the calls the Report Engine has received, in order
  logs,                    \* what the loggers and console have been given
  calls,                   \* the host's calls: onAfterSuiteRun / reportCoverage (direct: addCoverageData / generateReport)
  addTask,                 \* the addCoverageData invocation made by each call
  genTask,                 \* the generateReport invocation made by each call
  addQueue,                \* MonocartBrowserProvider.addQueue: the chain, as the list of the p it waits for
  didGenerateReports,      \* MonocartBrowserProvider.didGenerateReports
  collector,               \* the BrowserCoverageCollector and the page it runs in (browser-runtime.ts)
  probe                    \* a call of one of the exported pure functions: its arguments and its result

\* The adapters and the Reporter.
adapterVars == <<adapter, reporterPresent, ctxCache, mcr, mcrCreated, coverageDataCollection,
                 engineLog, logs, calls, addTask, genTask, addQueue, didGenerateReports>>
\* The browser runtime module and the pure functions.
runtimeVars == <<collector, probe>>

vars == <<adapter, reporterPresent, ctxCache, mcr, mcrCreated, coverageDataCollection,
          engineLog, logs, calls, addTask, genTask, addQueue, didGenerateReports,
          collector, probe>>

\* Calls are numbered in the order the host makes them.
CallIds == 1..(IF MaxCalls > MaxDirectCalls THEN MaxCalls ELSE MaxDirectCalls)

----------------------------------------------------------------------------
(* Values *)

Undefined == "<undefined>"
UndefinedNum == -1

\* JavaScript truthiness of a string-or-undefined and of a number-or-undefined.
TruthyStr(s) == s \notin {Undefined, ""}
TruthyNum(n) == n \notin {UndefinedNum, 0}

\* The values an entry's `functions` may hold.
FnUndefined == [kind |-> "undefined", items |-> <<>>]
FnNull == [kind |-> "null", items |-> <<>>]
FnString == [kind |-> "string", items |-> <<"f">>]
FnObject == [kind |-> "object", items |-> <<>>]
FnEmptyArray == [kind |-> "array", items |-> <<>>]
FnArray == [kind |-> "array", items |-> <<"f">>]
FnValues == {FnUndefined, FnNull, FnString, FnObject, FnEmptyArray, FnArray}

IsArray(v) == v.kind = "array"
\* undefined, null, "", 0, false and NaN are falsy; every object and array is truthy.
IsTruthy(v) == v.kind \notin {"undefined", "null", "emptyString", "zero", "false"}

NoMap == [present |-> FALSE, sources |-> <<>>]
RawMap == [present |-> TRUE, sources |-> <<>>]

\* Paths are sequences of segments.
PathA == <<"proj", "src", "a.ts">>
PathB == <<"other", "b.ts">>
PathC == <<"proj", "src", "c.ts">>
PathD == <<"other", "lib", "d.ts">>
Cwd == <<"proj">>

UrlA == [valid |-> TRUE, pathname |-> PathA]
UrlB == [valid |-> TRUE, pathname |-> PathB]
UrlC == [valid |-> TRUE, pathname |-> PathC]
UrlD == [valid |-> TRUE, pathname |-> PathD]
UrlBad == [valid |-> FALSE, pathname |-> <<>>]

MkEntry(u, src, so, fn) ==
  [url |-> u, source |-> src, startOffset |-> so, scriptOffset |-> UndefinedNum,
   sourceMap |-> NoMap, functions |-> fn]

----------------------------------------------------------------------------
(* MonocartReporter *)

\* `entry.functions ?? []`: only undefined and null are replaced.
NormalizeFunctionsNullish(f) == IF f.kind \in {"undefined", "null"} THEN FnEmptyArray ELSE f

\* reporter.ts:70
NormalizeFunctions(f) == IF IsArray(f) THEN f ELSE FnEmptyArray

\* reporter.ts:68-71: a fresh object per entry, the input entry is not written.
NormalizeEntry(e) == [e EXCEPT !.functions = NormalizeFunctions(e.functions)]

NormalizeBatch(b) == [i \in 1..Len(b) |-> NormalizeEntry(b[i])]

\* initializeMCR (reporter.ts:37-60).  `ok` is whether MCR(config) yields an
\* engine; it is only consulted when no engine exists yet.
InitOutcomes == IF mcr = "null" THEN BOOLEAN ELSE {TRUE}
InitThrows(ok) == mcr = "null" /\ ~ok
McrAfterInit(ok) == IF mcr = "null" /\ ok THEN "engine" ELSE mcr
\* An initializeMCR without `if (!this.mcr)`: every call constructs an engine.
CreatedAfterInitUnguarded(ok) == IF ok THEN mcrCreated + 1 ELSE mcrCreated

CreatedAfterInit(ok) == IF mcr = "null" /\ ok THEN mcrCreated + 1 ELSE mcrCreated

\* An add() that drops a batch equal to one already added.
EngineAddDeduplicated(log, k, data) ==
  IF \E n \in 1..Len(log) : log[n].op = "add" /\ log[n].data = data
    THEN log
    ELSE Append(log, [op |-> "add", by |-> k, data |-> data, engine |-> mcrCreated])

\* The engine's add() and generate() as the engine sees them.
\* `engine` is the instance called: the mcrCreated-th engine constructed.
EngineAdd(log, k, data) ==
  Append(log, [op |-> "add", by |-> k, data |-> data, engine |-> mcrCreated])
EngineGenerate(log, k) ==
  Append(log, [op |-> "generate", by |-> k, data |-> <<>>, engine |-> mcrCreated])

IdleAdd == [pc |-> "idle", input |-> <<>>, data |-> <<>>, initFailed |-> FALSE]
\* error is what a rejected generateReport rejects with: the error of
\* initializeMCR ("init"), of the extra add ("add") or of generate() ("generate").
IdleGen == [pc |-> "idle", extra |-> FnUndefined, initFailed |-> FALSE, error |-> "none"]

Settled(pc) == pc \in {"resolved", "rejected"}

Log(level, msg, who) == [level |-> level, msg |-> msg, by |-> who]

\* An onAfterSuiteRun without its catch.
SuiteCatchRethrows(pState) == pState

\* provider.ts:149-151 and browser-provider.ts:126-128: the catch of
\* onAfterSuiteRun turns a rejected addCoverageData into a resolved call.
SuiteCatch(pState) == "resolved"

\* A reportCoverage without its catch.
ReportCatchRethrows(gState) == gState

\* provider.ts:166-168 and browser-provider.ts:155-157: the catch of
\* reportCoverage turns a rejected generateReport into a resolved call.
ReportCatch(gState) == "resolved"

\* The adapter's onAfterSuiteRun is suspended in `await` on the promise of its
\* addCoverageData (provider.ts:148, browser-provider.ts:121); when that
\* settles it resumes and returns (provider.ts:149-152,
\* browser-provider.ts:122-129).  Nothing else reads the call in between, so
\* the resumption is part of the step that settles the promise.
SuiteResumed(k, pState) ==
  IF calls[k].kind = "suite" /\ calls[k].pc = "awaitP"
    THEN [calls EXCEPT ![k].pc = IF pState = "resolved" THEN "resolved" ELSE SuiteCatch(pState)]
    ELSE calls
SuiteResumedLogs(k, pState) ==
  IF calls[k].kind = "suite" /\ calls[k].pc = "awaitP"
    THEN logs \cup
           {IF pState = "rejected"
              THEN Log("error", "Failed to process coverage in onAfterSuiteRun", <<"onAfterSuiteRun", k>>)
              ELSE Log("info", "Coverage data added to reporter", <<"onAfterSuiteRun", k>>)}
    ELSE logs

\* Likewise the adapter's reportCoverage, suspended on generateReport()
\* (provider.ts:165-168, browser-provider.ts:154-157).
ReportResumed(k, gState) ==
  IF calls[k].kind = "report" /\ calls[k].pc = "awaitGen"
    THEN [calls EXCEPT ![k].pc = IF gState = "resolved" THEN "resolved" ELSE ReportCatch(gState)]
    ELSE calls
ReportResumedLogs(k, gState) ==
  IF calls[k].kind = "report" /\ calls[k].pc = "awaitGen" /\ gState = "rejected"
    THEN {Log("error", "Failed to generate final report", <<"reportCoverage", k>>)}
    ELSE {}

\* addCoverageData up to its first await (reporter.ts:62-77): normalize, push,
\* run initializeMCR.
AddStarted(k, batch, ok) ==
  [addTask EXCEPT ![k] = [pc |-> "awaitInit", input |-> batch,
                          data |-> NormalizeBatch(batch), initFailed |-> InitThrows(ok)]]
\* A collection that keeps the latest batch only.
CollectionKeepsLatest(batch) == NormalizeBatch(batch)

\* reporter.ts:74
CollectionAfterAdd(batch) == coverageDataCollection \o NormalizeBatch(batch)

\* addCoverageData after `await this.initializeMCR()` (reporter.ts:77-80).
AddAfterInit(k) ==
  /\ addTask[k].pc = "awaitInit"
  /\ IF addTask[k].initFailed
       THEN /\ addTask' = [addTask EXCEPT ![k].pc = "rejected"]
            /\ calls' = SuiteResumed(k, "rejected")
            /\ logs' = SuiteResumedLogs(k, "rejected")
            /\ UNCHANGED engineLog
       ELSE /\ addTask' = [addTask EXCEPT ![k].pc = "awaitAdd"]
            /\ engineLog' = EngineAdd(engineLog, k, addTask[k].data)
            /\ UNCHANGED <<calls, logs>>
  /\ UNCHANGED <<runtimeVars, adapter, reporterPresent, ctxCache, mcr, mcrCreated, coverageDataCollection,
                 genTask, addQueue, didGenerateReports>>

\* The engine's add() settles (reporter.ts:80).
EngineAddSettles(k) ==
  /\ addTask[k].pc = "awaitAdd"
  /\ \E result \in {"resolved", "rejected"} :
       /\ addTask' = [addTask EXCEPT ![k].pc = result]
       /\ calls' = SuiteResumed(k, result)
       /\ logs' = SuiteResumedLogs(k, result)
  /\ UNCHANGED <<runtimeVars, adapter, reporterPresent, ctxCache, mcr, mcrCreated, coverageDataCollection,
                 engineLog, genTask, addQueue, didGenerateReports>>

\* reporter.ts:88-97: what generateReport does with its argument.
ExtraBranch(x) ==
  IF ~IsTruthy(x) THEN "none" ELSE IF IsArray(x) THEN "add" ELSE "warn"

\* generateReport up to its first await (reporter.ts:83-84).
GenStarted(k, x, ok) ==
  [genTask EXCEPT ![k] = [pc |-> "awaitInit", extra |-> x, initFailed |-> InitThrows(ok),
                          error |-> "none"]]

\* A generateReport behind a one-shot latch that a finished report sets.
GenerateCalledOnce(k) ==
  IF \E j \in CallIds : genTask[j].pc = "resolved" THEN engineLog ELSE EngineGenerate(engineLog, k)

\* A catch that logs the error and returns.
GenerateCatchSwallows(err) == "none"

\* reporter.ts:107-110: the catch of generateReport logs the error and throws
\* it again.
GenerateCatch(err) == err

\* The state in which generateReport settles when its try block ended with
\* `err` ("none": no error).
GenSettledAs(k, err) ==
  [genTask EXCEPT ![k].pc = IF GenerateCatch(err) = "none" THEN "resolved" ELSE "rejected",
                  ![k].error = GenerateCatch(err)]

\* reporter.ts:103: the engine's generate() is called.
GenerateCalled(k) == EngineGenerate(engineLog, k)

\* generateReport after `await this.initializeMCR()` (reporter.ts:84-103).  A
\* failed initializeMCR rejects outside the try; otherwise the extra data is
\* added or warned about, and without extra data generate() is called at once.
GenAfterInit(k) ==
  /\ genTask[k].pc = "awaitInit"
  /\ IF genTask[k].initFailed
       THEN /\ genTask' = [genTask EXCEPT ![k].pc = "rejected", ![k].error = "init"]
            /\ calls' = ReportResumed(k, "rejected")
            /\ logs' = logs \cup ReportResumedLogs(k, "rejected")
            /\ UNCHANGED <<engineLog, addTask, coverageDataCollection>>
       ELSE IF ExtraBranch(genTask[k].extra) = "add"
       THEN /\ genTask' = [genTask EXCEPT ![k].pc = "awaitExtraAdd"]
            /\ addTask' = AddStarted(k, genTask[k].extra.items, TRUE)
            /\ coverageDataCollection' = CollectionAfterAdd(genTask[k].extra.items)
            /\ UNCHANGED <<engineLog, logs, calls>>
       ELSE /\ genTask' = [genTask EXCEPT ![k].pc = "awaitGenerate"]
            /\ engineLog' = GenerateCalled(k)
            /\ logs' = IF ExtraBranch(genTask[k].extra) = "warn"
                         THEN logs \cup {Log("warn", "Non-V8 coverage data provided to generateReport, skipping transformation", <<"generateReport", k>>)}
                         ELSE logs
            /\ UNCHANGED <<addTask, coverageDataCollection, calls>>
  /\ UNCHANGED <<runtimeVars, adapter, reporterPresent, ctxCache, mcr, mcrCreated, addQueue,
                 didGenerateReports>>

\* generateReport after `await this.addCoverageData(coverageData)`
\* (reporter.ts:90, 103, 107-109).
GenAfterExtraAdd(k) ==
  /\ genTask[k].pc = "awaitExtraAdd"
  /\ Settled(addTask[k].pc)
  /\ IF addTask[k].pc = "resolved"
       THEN /\ genTask' = [genTask EXCEPT ![k].pc = "awaitGenerate"]
            /\ engineLog' = GenerateCalled(k)
            /\ UNCHANGED logs
       ELSE /\ genTask' = GenSettledAs(k, "add")
            /\ logs' = logs \cup {Log("error", "Failed to generate Monocart coverage report", <<"generateReport", k>>)}
            /\ UNCHANGED engineLog
  /\ UNCHANGED <<runtimeVars, adapter, reporterPresent, ctxCache, mcr, mcrCreated, coverageDataCollection,
                 calls, addTask, addQueue, didGenerateReports>>

\* The engine's generate() settles (reporter.ts:103-110).
EngineGenerateSettles(k) ==
  /\ genTask[k].pc = "awaitGenerate"
  /\ \E result \in {"resolved", "rejected"} :
       /\ genTask' = GenSettledAs(k, IF result = "resolved" THEN "none" ELSE "generate")
       /\ calls' = ReportResumed(k, genTask'[k].pc)
       /\ logs' = logs \cup ReportResumedLogs(k, genTask'[k].pc) \cup
                    {IF result = "resolved"
                       THEN Log("info", "Monocart coverage report generated", <<"generateReport", k>>)
                       ELSE Log("error", "Failed to generate Monocart coverage report", <<"generateReport", k>>)}
  /\ UNCHANGED <<runtimeVars, adapter, reporterPresent, ctxCache, mcr, mcrCreated, coverageDataCollection,
                 engineLog, addTask, addQueue, didGenerateReports>>

----------------------------------------------------------------------------
(* The inputs *)

\* Entries of a suite's snapshot.
EntryA == MkEntry(UrlA, Undefined, UndefinedNum, FnArray)
EntryNoFn == MkEntry(UrlB, "src-b", 50, FnUndefined)
EntryBadUrl == MkEntry(UrlBad, Undefined, UndefinedNum, FnNull)
\* Entries that declare their wrapper offset: 50, and 0 (no wrapper).
EntryOffset == MkEntry(UrlC, Undefined, 50, FnArray)
EntryZeroOffset == MkEntry(UrlD, Undefined, 0, FnArray)

\* meta.coverage: absent, a bare array, or { result: [...] }.
Coverage(shape, entries) == [shape |-> shape, entries |-> entries]
Meta(cov, mode, project) == [coverage |-> cov, transformMode |-> mode, projectName |-> project]

MetaMissing == Meta(Coverage("undefined", <<>>), "ssr", "test")
SuiteEntries == <<EntryA, EntryBadUrl, EntryNoFn, EntryOffset, EntryZeroOffset>>
MetaBare == Meta(Coverage("array", SuiteEntries), "ssr", "test")
MetaWrapped == Meta(Coverage("wrapped", SuiteEntries), "ssr", "test")
Metas == {MetaMissing, MetaBare, MetaWrapped}
IdleMeta == Meta(Coverage("undefined", <<>>), Undefined, Undefined)

\* Batches handed to Reporter.addCoverageData directly.
EntryWith(fn) == MkEntry(UrlA, "src-a", UndefinedNum, fn)
DirectBatches ==
  {<<EntryWith(FnUndefined)>>, <<EntryWith(FnString)>>, <<EntryWith(FnArray), EntryWith(FnNull)>>,
   <<EntryWith(FnObject), EntryWith(FnEmptyArray)>>, <<>>}

\* Arguments handed to Reporter.generateReport directly.
XUndefined == [kind |-> "undefined", items |-> <<>>]
XString == [kind |-> "string", items |-> <<>>]
XEmptyString == [kind |-> "emptyString", items |-> <<>>]
XObject == [kind |-> "object", items |-> <<>>]
XArray == [kind |-> "array", items |-> <<EntryWith(FnObject)>>]
ExtraValues == {XUndefined, XString, XEmptyString, XObject, XArray}

\* The transform caches of the host: one per (node, mode), the node's single
\* fetchCache under GlobalKey.  A cache maps a path to { code, map }.
RootNode == "<root>"
GlobalKey == "<fetchCache>"
ProjectNames == {"test"}
CachedWithMap == [code |-> "compiled-a", map |-> RawMap]
CachedNoMap == [code |-> "compiled-a-global", map |-> NoMap]
CachedC == [code |-> "compiled-c", map |-> NoMap]
CachedD == [code |-> "compiled-d", map |-> RawMap]
InitialCtxCache ==
  [slot \in {<<"test", "ssr">>, <<"test", GlobalKey>>, <<RootNode, GlobalKey>>} |->
     IF slot = <<"test", "ssr">>
       THEN [p \in {PathA, PathC, PathD} |->
               IF p = PathA THEN CachedWithMap ELSE IF p = PathC THEN CachedC ELSE CachedD]
     ELSE IF slot = <<"test", GlobalKey>> THEN [p \in {PathA, PathB} |-> CachedNoMap]
     ELSE [p \in {PathA} |-> CachedNoMap]]

\* A call of the host: kind is "suite" (onAfterSuiteRun, addCoverageData) or
\* "report" (reportCoverage, generateReport).  afterReport is what the caller of
\* generateReport knew: whether an earlier generateReport had already resolved.
IdleCall ==
  [kind |-> "idle", pc |-> "idle", meta |-> IdleMeta, allTestsRun |-> FALSE, current |-> 0,
   afterReport |-> FALSE]

\* The host makes call k after call k - 1 (the numbering is the order).
CallLimit == IF adapter = "direct" THEN MaxDirectCalls ELSE MaxCalls
CanStart(k) ==
  /\ k <= CallLimit
  /\ calls[k].kind = "idle"
  /\ (IF k = 1 THEN TRUE ELSE calls[k - 1].kind # "idle")

\* No collector constructed, no pure function called.
IdleCollector == [phase |-> "none"]
IdleProbe == [fn |-> "none"]
RuntimeIdle == collector = IdleCollector /\ probe = IdleProbe

InitWith(kinds) ==
  /\ adapter \in kinds
  /\ reporterPresent \in (IF adapter = "direct" THEN {TRUE}
                          ELSE IF adapter = "none" THEN {FALSE} ELSE BOOLEAN)
  /\ ctxCache = InitialCtxCache
  /\ mcr = "null"
  /\ mcrCreated = 0
  /\ coverageDataCollection = <<>>
  /\ engineLog = <<>>
  /\ logs = {}
  /\ calls = [k \in CallIds |-> IdleCall]
  /\ addTask = [k \in CallIds |-> IdleAdd]
  /\ genTask = [k \in CallIds |-> IdleGen]
  /\ addQueue = <<>>
  /\ didGenerateReports = FALSE

----------------------------------------------------------------------------
(* The Reporter driven directly *)

\* reporter.ts:68-71: map() and the spread build new objects; the caller's
\* entries are as they were.
CallerBatchAfterAdd(batch) == batch

\* A caller invokes reporter.addCoverageData(batch) (reporter.ts:62-77).  The
\* caller keeps its batch in meta.coverage.entries.
DirectAddCoverageData(k) ==
  /\ adapter = "direct"
  /\ CanStart(k)
  /\ \E batch \in DirectBatches, ok \in InitOutcomes :
       /\ calls' = [calls EXCEPT ![k] = [IdleCall EXCEPT !.kind = "suite", !.pc = "called",
                                                        !.meta = Meta(Coverage("array", CallerBatchAfterAdd(batch)), Undefined, Undefined)]]
       /\ addTask' = AddStarted(k, batch, ok)
       /\ coverageDataCollection' = CollectionAfterAdd(batch)
       /\ mcr' = McrAfterInit(ok)
       /\ mcrCreated' = CreatedAfterInit(ok)
  /\ UNCHANGED <<runtimeVars, adapter, reporterPresent, ctxCache, engineLog, logs, genTask, addQueue,
                 didGenerateReports>>

\* A caller invokes reporter.generateReport(x) (reporter.ts:83-84).
DirectGenerateReport(k) ==
  /\ adapter = "direct"
  /\ CanStart(k)
  /\ \E x \in ExtraValues, ok \in InitOutcomes :
       /\ calls' = [calls EXCEPT ![k] = [IdleCall EXCEPT !.kind = "report", !.pc = "called",
                                                        !.afterReport = \E j \in CallIds : genTask[j].pc = "resolved"]]
       /\ genTask' = GenStarted(k, x, ok)
       /\ mcr' = McrAfterInit(ok)
       /\ mcrCreated' = CreatedAfterInit(ok)
  /\ UNCHANGED <<runtimeVars, adapter, reporterPresent, ctxCache, coverageDataCollection, engineLog, logs,
                 addTask, addQueue, didGenerateReports>>

InitReporter == InitWith({"direct"}) /\ RuntimeIdle

NextReporter ==
  \/ \E k \in CallIds : DirectAddCoverageData(k)
  \/ \E k \in CallIds : DirectGenerateReport(k)
  \/ \E k \in CallIds : AddAfterInit(k)
  \/ \E k \in CallIds : EngineAddSettles(k)
  \/ \E k \in CallIds : GenAfterInit(k)
  \/ \E k \in CallIds : GenAfterExtraAdd(k)
  \/ \E k \in CallIds : EngineGenerateSettles(k)

SpecReporter == InitReporter /\ [][NextReporter]_vars

----------------------------------------------------------------------------
(* MonocartCoverageProvider, the in-process adapter *)

\* provider.ts:107-112: the cache the suite's entries are looked up in.
NodeOf(meta) == IF meta.projectName \in ProjectNames THEN meta.projectName ELSE RootNode
SlotOf(meta) ==
  <<NodeOf(meta), IF TruthyStr(meta.transformMode) THEN meta.transformMode ELSE GlobalKey>>
\* provider.ts:205-213: an absent cache gives an empty map.
TransformResults(meta) == IF SlotOf(meta) \in DOMAIN ctxCache THEN ctxCache[SlotOf(meta)] ELSE <<>>

\* A relativePath that returns the path as it is.
relativePathAbsolute(p) == p

\* path.relative(process.cwd(), p) on segments (provider.ts:193-198).
CommonLen(a, b) ==
  LET m == IF Len(a) < Len(b) THEN Len(a) ELSE Len(b)
  IN CHOOSE n \in 0..m :
       /\ SubSeq(a, 1, n) = SubSeq(b, 1, n)
       /\ (IF n = m THEN TRUE ELSE a[n + 1] # b[n + 1])
relativePath(p) ==
  LET c == CommonLen(Cwd, p)
  IN [i \in 1..(Len(Cwd) - c) |-> ".."] \o SubSeq(p, c + 1, Len(p))

\* An enrichment that stamps the default wrapper length on every entry that
\* lacks a source, matched or not.
EnrichEntryStampsAll(entry, tr) ==
  IF TruthyStr(entry.source) THEN entry
  ELSE IF entry.url.valid /\ entry.url.pathname \in DOMAIN tr
    THEN [entry EXCEPT !.scriptOffset = WRAPPER_LENGTH, !.source = tr[entry.url.pathname].code]
    ELSE [entry EXCEPT !.scriptOffset = WRAPPER_LENGTH]

\* provider.ts:116-143, one entry.
EnrichEntry(entry, tr) ==
  IF TruthyStr(entry.source) THEN entry
  ELSE IF ~entry.url.valid THEN entry
  ELSE IF entry.url.pathname \notin DOMAIN tr THEN entry
  ELSE LET result == tr[entry.url.pathname]
       IN [entry EXCEPT
             !.scriptOffset = IF TruthyNum(entry.startOffset) THEN entry.startOffset
                                                              ELSE WRAPPER_LENGTH,
             !.source = result.code,
             !.sourceMap = IF result.map.present
                             THEN [present |-> TRUE, sources |-> <<relativePath(entry.url.pathname)>>]
                             ELSE @]
EnrichBatch(entries, tr) == [i \in 1..Len(entries) |-> EnrichEntry(entries[i], tr)]

\* provider.ts:137-140: `map` is the cached object, so the cache is written.
MapsRewritten(entries, tr) ==
  {entries[i].url.pathname : i \in {n \in 1..Len(entries) :
      /\ ~TruthyStr(entries[n].source)
      /\ entries[n].url.valid
      /\ entries[n].url.pathname \in DOMAIN tr
      /\ tr[entries[n].url.pathname].map.present}}
CacheAfterEnrich(entries, tr) ==
  [p \in DOMAIN tr |-> IF p \in MapsRewritten(entries, tr)
                         THEN [tr[p] EXCEPT !.map.sources = <<relativePath(p)>>]
                         ELSE tr[p]]

\* provider.ts:104, 116: coverage.result is read and iterated; anything but
\* { result: [...] } throws a TypeError inside the try.
InProcSnapshotThrows(cov) == cov.shape # "wrapped"

\* provider.ts:99-148, up to `await this.reporter!.addCoverageData(...)`, for
\* a meta of the set metas.
InProcOnAfterSuiteRunWith(k, metas) ==
  /\ adapter = "inproc"
  /\ CanStart(k)
  /\ \E meta \in metas, ok \in InitOutcomes :
       LET tr == TransformResults(meta)
           enriched == EnrichBatch(meta.coverage.entries, tr)
           who == <<"onAfterSuiteRun", k>>
       IN IF InProcSnapshotThrows(meta.coverage)
            THEN /\ calls' = [calls EXCEPT ![k] = [IdleCall EXCEPT !.kind = "suite", !.pc = "resolved", !.meta = meta]]
                 /\ logs' = logs \cup {Log("error", "[MonocartProvider] Failed to process coverage in onAfterSuiteRun", who)}
                 /\ UNCHANGED <<ctxCache, addTask, coverageDataCollection, mcr, mcrCreated>>
            ELSE /\ ctxCache' = IF SlotOf(meta) \in DOMAIN ctxCache
                                  THEN [ctxCache EXCEPT ![SlotOf(meta)] = CacheAfterEnrich(meta.coverage.entries, tr)]
                                  ELSE ctxCache
                 /\ IF reporterPresent
                      THEN /\ calls' = [calls EXCEPT ![k] = [IdleCall EXCEPT !.kind = "suite", !.pc = "awaitP",
                                                                           !.meta = [meta EXCEPT !.coverage.entries = enriched]]]
                           /\ addTask' = AddStarted(k, enriched, ok)
                           /\ coverageDataCollection' = CollectionAfterAdd(enriched)
                           /\ mcr' = McrAfterInit(ok)
                           /\ mcrCreated' = CreatedAfterInit(ok)
                           /\ UNCHANGED logs
                      ELSE /\ calls' = [calls EXCEPT ![k] = [IdleCall EXCEPT !.kind = "suite", !.pc = "resolved",
                                                                           !.meta = [meta EXCEPT !.coverage.entries = enriched]]]
                           /\ logs' = logs \cup {Log("error", "[MonocartProvider] Failed to process coverage in onAfterSuiteRun", who)}
                           /\ UNCHANGED <<addTask, coverageDataCollection, mcr, mcrCreated>>
  /\ UNCHANGED <<runtimeVars, adapter, reporterPresent, engineLog, genTask, addQueue, didGenerateReports>>

InProcOnAfterSuiteRun(k) == InProcOnAfterSuiteRunWith(k, Metas)

\* A guard that forgets allTestsRun.
InProcSkipsReporterOnly(allTestsRun) == ~reporterPresent

\* provider.ts:160
InProcSkips(allTestsRun) == ~allTestsRun \/ ~reporterPresent

\* provider.ts:157-165, up to `await this.reporter.generateReport()`.
InProcReportCoverage(k) ==
  /\ adapter = "inproc"
  /\ CanStart(k)
  /\ \E allTestsRun \in BOOLEAN, ok \in InitOutcomes :
       IF InProcSkips(allTestsRun)
         THEN /\ calls' = [calls EXCEPT ![k] = [IdleCall EXCEPT !.kind = "report", !.pc = "resolved",
                                                              !.allTestsRun = allTestsRun]]
              /\ UNCHANGED <<genTask, mcr, mcrCreated>>
         ELSE /\ calls' = [calls EXCEPT ![k] = [IdleCall EXCEPT !.kind = "report", !.pc = "awaitGen",
                                                              !.allTestsRun = allTestsRun]]
              /\ genTask' = GenStarted(k, XUndefined, ok)
              /\ mcr' = McrAfterInit(ok)
              /\ mcrCreated' = CreatedAfterInit(ok)
  /\ UNCHANGED <<runtimeVars, adapter, reporterPresent, ctxCache, coverageDataCollection, engineLog, logs,
                 addTask, addQueue, didGenerateReports>>

----------------------------------------------------------------------------
(* MonocartBrowserProvider, the browser adapter with the add queue *)

\* browser-provider.ts:106-113
BrowserCoverageData(cov) == IF cov.shape \in {"array", "wrapped"} THEN cov.entries ELSE <<>>

\* The state of the promise addCoverageData returned to call k.
PState(k) ==
  IF addTask[k].pc = "resolved" THEN "fulfilled"
  ELSE IF addTask[k].pc = "rejected" THEN "rejected" ELSE "pending"

\* A queue link without the catch: `previous.then(() => p)`.
CatchKeepsRejection(st) == st

\* browser-provider.ts:120, `p.catch(() => {})`.
CatchSwallow(st) == IF st = "pending" THEN "pending" ELSE "fulfilled"

\* browser-provider.ts:120: the state of the n-th promise assigned to addQueue,
\* `previous.then(() => p.catch(() => {}))`; the 0-th is Promise.resolve().
RECURSIVE ChainState(_)
ChainState(n) ==
  IF n = 0 THEN "fulfilled"
  ELSE LET prev == ChainState(n - 1)
       IN IF prev # "fulfilled" THEN prev ELSE CatchSwallow(PState(addQueue[n]))

\* browser-provider.ts:100-121, up to `await p`.
BrowserOnAfterSuiteRun(k) ==
  /\ adapter = "browser"
  /\ CanStart(k)
  /\ \E meta \in Metas, ok \in InitOutcomes :
       LET coverageData == BrowserCoverageData(meta.coverage)
           who == <<"onAfterSuiteRun", k>>
       IN IF Len(coverageData) > 0 /\ reporterPresent
            THEN /\ calls' = [calls EXCEPT ![k] = [IdleCall EXCEPT !.kind = "suite", !.pc = "awaitP", !.meta = meta]]
                 /\ addTask' = AddStarted(k, coverageData, ok)
                 /\ coverageDataCollection' = CollectionAfterAdd(coverageData)
                 /\ mcr' = McrAfterInit(ok)
                 /\ mcrCreated' = CreatedAfterInit(ok)
                 /\ addQueue' = Append(addQueue, k)
                 /\ logs' = logs \cup {Log("info", "[browser-provider] Coverage data received", who)}
            ELSE /\ calls' = [calls EXCEPT ![k] = [IdleCall EXCEPT !.kind = "suite", !.pc = "resolved", !.meta = meta]]
                 /\ logs' = logs \cup {Log("info", "[browser-provider] Coverage data received", who),
                                       Log("warn", "No coverage data or reporter unavailable", who)}
                 /\ UNCHANGED <<addTask, coverageDataCollection, mcr, mcrCreated, addQueue>>
  /\ UNCHANGED <<runtimeVars, adapter, reporterPresent, ctxCache, engineLog, genTask, didGenerateReports>>

\* browser-provider.ts:138
BrowserSkips(allTestsRun) == didGenerateReports \/ ~reporterPresent

\* browser-provider.ts:134-147, up to the first `await current`.  The chain is
\* named by its length: every assignment to addQueue makes a longer one.
BrowserReportCoverage(k) ==
  /\ adapter = "browser"
  /\ CanStart(k)
  /\ \E allTestsRun \in BOOLEAN :
       calls' = [calls EXCEPT ![k] =
                   [IdleCall EXCEPT !.kind = "report", !.allTestsRun = allTestsRun,
                                    !.pc = IF BrowserSkips(allTestsRun) THEN "resolved" ELSE "draining",
                                    !.current = Len(addQueue)]]
  /\ UNCHANGED <<runtimeVars, adapter, reporterPresent, ctxCache, mcr, mcrCreated, coverageDataCollection,
                 engineLog, logs, addTask, genTask, addQueue, didGenerateReports>>

\* A drain that awaits the queue once and does not look at it again.
DrainStableUnchecked(current) == TRUE

\* browser-provider.ts:148
DrainStable(current) == Len(addQueue) = current

\* browser-provider.ts:147-154: `await current` returns; either the loop goes
\* round again or the latch is set and generateReport() is called.
BrowserDrainResume(k) ==
  /\ calls[k].kind = "report"
  /\ calls[k].pc = "draining"
  /\ ChainState(calls[k].current) # "pending"
  /\ \E ok \in InitOutcomes :
       IF ChainState(calls[k].current) = "rejected"
         THEN /\ calls' = [calls EXCEPT ![k].pc = "rejected"]
              /\ UNCHANGED <<genTask, mcr, mcrCreated, didGenerateReports>>
         ELSE IF DrainStable(calls[k].current)
         THEN /\ calls' = [calls EXCEPT ![k].pc = "awaitGen"]
              /\ didGenerateReports' = TRUE
              /\ genTask' = GenStarted(k, XUndefined, ok)
              /\ mcr' = McrAfterInit(ok)
              /\ mcrCreated' = CreatedAfterInit(ok)
         ELSE /\ calls' = [calls EXCEPT ![k].current = Len(addQueue)]
              /\ UNCHANGED <<genTask, mcr, mcrCreated, didGenerateReports>>
  /\ UNCHANGED <<runtimeVars, adapter, reporterPresent, ctxCache, coverageDataCollection, engineLog, logs,
                 addTask, addQueue>>

----------------------------------------------------------------------------
Init == InitWith({"inproc", "browser"}) /\ RuntimeIdle

Next ==
  \/ \E k \in CallIds : InProcOnAfterSuiteRun(k)
  \/ \E k \in CallIds : InProcReportCoverage(k)
  \/ \E k \in CallIds : BrowserOnAfterSuiteRun(k)
  \/ \E k \in CallIds : BrowserReportCoverage(k)
  \/ \E k \in CallIds : BrowserDrainResume(k)
  \/ \E k \in CallIds : AddAfterInit(k)
  \/ \E k \in CallIds : EngineAddSettles(k)
  \/ \E k \in CallIds : GenAfterInit(k)
  \/ \E k \in CallIds : EngineGenerateSettles(k)

Spec == Init /\ [][Next]_vars

----------------------------------------------------------------------------
(* Properties *)

ReportCalls == {k \in CallIds : calls[k].kind = "report"}
SuiteCalls == {k \in CallIds : calls[k].kind = "suite"}
\* The calls that have invoked reporter.generateReport / reporter.addCoverageData.
GenInvoked == {k \in CallIds : genTask[k].pc # "idle"}
AddInvoked == {k \in CallIds : addTask[k].pc # "idle"}
EventsBy(op, k) == {n \in 1..Len(engineLog) : engineLog[n].op = op /\ engineLog[n].by = k}
GenerateCount == Cardinality({n \in 1..Len(engineLog) : engineLog[n].op = "generate"})

\* C1: on one browser adapter, any number N >= 1 of reportCoverage calls that
\* signal all tests have run, sequential or overlapping, make generateReport,
\* and so the engine's generate(), run exactly once.
C1_ReportGeneratedExactlyOnce ==
  (adapter = "browser" /\ reporterPresent /\ \A k \in ReportCalls : calls[k].allTestsRun)
    => /\ Cardinality(GenInvoked) <= 1
       /\ GenerateCount <= 1
       /\ (\A k \in ReportCalls : calls[k].pc = "resolved" => Cardinality(GenInvoked) = 1)

\* C2: when a reportCoverage call of the browser adapter leaves its drain loop
\* and invokes generateReport, every onAfterSuiteRun invoked before that moment
\* has returned and the addCoverageData it made has settled, also one that was
\* enqueued while the call was waiting.
C2_DrainedBeforeGenerate ==
  [][\A k \in CallIds :
       (adapter = "browser" /\ genTask[k].pc = "idle" /\ genTask'[k].pc # "idle")
         => \A s \in SuiteCalls :
              /\ calls[s].pc = "resolved"
              /\ (s \in AddInvoked => Settled(addTask[s].pc))]_vars

\* A report was started by a call during whose wait a later suite was enqueued,
\* and that suite is part of what the call drained.
C2_Witness ==
  \E k \in ReportCalls, s \in SuiteCalls :
    /\ adapter = "browser"
    /\ genTask[k].pc # "idle"
    /\ s > k
    /\ \E n \in 1..calls[k].current : addQueue[n] = s

\* C3: in the browser adapter a reportCoverage call with allTestsRun = false
\* does nothing (no generateReport, latch not set), so generate() is never
\* invoked before a call with allTestsRun = true.
C3_NotAllTestsRunDoesNothing ==
  adapter = "browser"
    => /\ \A k \in ReportCalls : ~calls[k].allTestsRun => (calls[k].pc = "resolved" /\ k \notin GenInvoked)
       /\ (didGenerateReports => \E k \in ReportCalls : calls[k].allTestsRun)
       /\ (GenerateCount > 0 => \E k \in ReportCalls : calls[k].allTestsRun)

\* C4: in the in-process adapter reportCoverage invokes generateReport if and
\* only if allTestsRun is true and a reporter exists; a call with allTestsRun =
\* false returns at once and changes nothing of the adapter or the reporter.
C4_InProcReportGuard ==
  [][adapter = "inproc" =>
       /\ \A k \in CallIds :
            calls'[k].kind = "report" => (k \in GenInvoked' <=> (calls'[k].allTestsRun /\ reporterPresent))
       /\ \A k \in CallIds :
            (calls[k].kind = "idle" /\ calls'[k].kind = "report" /\ ~calls'[k].allTestsRun)
              => /\ calls'[k].pc = "resolved"
                 /\ UNCHANGED <<reporterPresent, ctxCache, mcr, mcrCreated, coverageDataCollection,
                                engineLog, logs, addTask, genTask, addQueue, didGenerateReports>>]_vars

\* One call with allTestsRun = false has returned without a report and another
\* with allTestsRun = true has invoked generateReport.
C4_Witness ==
  \E k1, k2 \in ReportCalls :
    /\ adapter = "inproc"
    /\ ~calls[k1].allTestsRun /\ calls[k1].pc = "resolved" /\ k1 \notin GenInvoked
    /\ calls[k2].allTestsRun /\ k2 \in GenInvoked

\* Whether generateReport call k got as far as calling generate(): it is
\* waiting for it, or it settled and neither initializeMCR nor the extra add
\* is what rejected it.
ReachedGenerate(k) ==
  \/ genTask[k].pc \in {"awaitGenerate", "resolved"}
  \/ genTask[k].pc = "rejected" /\ ~genTask[k].initFailed /\ addTask[k].pc # "rejected"

\* C5 as stated: once a generateReport has resolved on a Reporter, a
\* generateReport called afterwards on that Reporter never calls the engine's
\* generate().
C5_NoOpAfterReport ==
  \A k \in ReportCalls : calls[k].afterReport => EventsBy("generate", k) = {}

\* C5, amended: the Reporter keeps no latch.  Every generateReport call, also
\* one made after a report was generated, calls the engine's generate() exactly
\* once if it gets past initializeMCR and its extra batch, and never otherwise.
C5_GenerateOncePerCall ==
  \A k \in ReportCalls :
    Cardinality(EventsBy("generate", k)) = IF ReachedGenerate(k) THEN 1 ELSE 0

\* A generateReport called after a report was generated has called generate()
\* again and resolved.
C5_Witness ==
  \E k \in ReportCalls :
    /\ adapter = "direct"
    /\ calls[k].afterReport
    /\ genTask[k].pc = "resolved"
    /\ EventsBy("generate", k) # {}
    /\ GenerateCount = 2

ReportError(k) == Log("error", "Failed to generate final report", <<"reportCoverage", k>>)

\* C6: in both adapters reportCoverage never rejects: when generateReport
\* rejects, the call logs the failure and resolves.
C6_ReportCoverageNeverRejects ==
  \A k \in ReportCalls :
    /\ calls[k].pc # "rejected"
    /\ (genTask[k].pc = "rejected" => (calls[k].pc = "resolved" /\ ReportError(k) \in logs))
    /\ (genTask[k].pc = "resolved" => (calls[k].pc = "resolved" /\ ReportError(k) \notin logs))

\* The browser adapter's report failed after a suite's addCoverageData had
\* failed too, and reportCoverage resolved with the failure logged.
C6_Witness ==
  \E k \in ReportCalls, s \in SuiteCalls :
    /\ adapter = "browser"
    /\ addTask[s].pc = "rejected"
    /\ genTask[k].pc = "rejected"
    /\ ~genTask[k].initFailed
    /\ calls[k].pc = "resolved"
    /\ ReportError(k) \in logs

\* A snapshot the adapter can forward: { result: [...] } for the in-process
\* adapter, a non-empty array or { result: [non-empty] } for the browser adapter.
ValidSnapshot(k) ==
  IF adapter = "inproc"
    THEN calls[k].meta.coverage.shape = "wrapped"
    ELSE calls[k].meta.coverage.shape \in {"array", "wrapped"} /\ Len(calls[k].meta.coverage.entries) > 0

\* C7: in both adapters onAfterSuiteRun never rejects, whatever the snapshot
\* and whether or not addCoverageData rejects; a failure does not stop later
\* work: every onAfterSuiteRun with a valid snapshot forwards it to the reporter
\* (and to the engine once the engine exists), no failed add blocks the drain,
\* and a final reportCoverage that is not skipped invokes generateReport.
C7_SuiteFailuresAreContained ==
  /\ \A k \in SuiteCalls :
       /\ calls[k].pc # "rejected"
       /\ (Settled(addTask[k].pc) => calls[k].pc = "resolved")
       /\ ((ValidSnapshot(k) /\ reporterPresent) => k \in AddInvoked)
       /\ ((k \in AddInvoked /\ addTask[k].pc # "awaitInit" /\ ~addTask[k].initFailed)
             => Cardinality(EventsBy("add", k)) = 1)
  /\ \A n \in 0..Len(addQueue) : ChainState(n) # "rejected"
  /\ \A k \in ReportCalls :
       /\ calls[k].pc # "rejected"
       /\ (adapter = "inproc" /\ calls[k].allTestsRun /\ reporterPresent) => k \in GenInvoked
       /\ (adapter = "browser" /\ reporterPresent /\ calls[k].pc \in {"awaitGen", "resolved"})
            => GenInvoked # {}
       /\ calls[k].pc = "awaitGen" => k \in GenInvoked

\* One onAfterSuiteRun resolved although its addCoverageData rejected, a later
\* one forwarded its batch to the engine, and a still later reportCoverage had
\* the engine generate the report.
C7_Witness ==
  \E k1, k2 \in SuiteCalls, k3 \in ReportCalls :
    /\ k1 < k2 /\ k2 < k3
    /\ addTask[k1].pc = "rejected" /\ calls[k1].pc = "resolved"
    /\ addTask[k2].pc = "resolved" /\ EventsBy("add", k2) # {}
    /\ EventsBy("generate", k3) # {}

\* C8: addCoverageData forwards, for every entry of the batch, an entry whose
\* functions is the input's when that is an array and [] when it is undefined,
\* null or any other non-array value, every other field being the input's; the
\* caller's batch is as it was.
C8_FunctionsNormalized ==
  \A k \in AddInvoked :
    /\ Len(addTask[k].data) = Len(addTask[k].input)
    /\ \A i \in 1..Len(addTask[k].input) :
         LET in == addTask[k].input[i]
             out == addTask[k].data[i]
         IN /\ out.functions = IF in.functions.kind = "array" THEN in.functions
                                                              ELSE [kind |-> "array", items |-> <<>>]
            /\ \A f \in DOMAIN in \ {"functions"} : out[f] = in[f]
    /\ \A n \in EventsBy("add", k) : engineLog[n].data = addTask[k].data
    /\ (calls[k].kind = "suite" => calls[k].meta.coverage.entries = addTask[k].input)

\* The engine received a batch in which a non-array functions became [] next to
\* an entry whose array was kept.
C8_Witness ==
  \E n \in 1..Len(engineLog) :
    /\ engineLog[n].op = "add"
    /\ addTask[engineLog[n].by].input = <<EntryWith(FnObject), EntryWith(FnEmptyArray)>>
    /\ engineLog[n].data = <<EntryWith(FnEmptyArray), EntryWith(FnEmptyArray)>>
    /\ \E m \in 1..Len(engineLog) :
         /\ engineLog[m].op = "add"
         /\ addTask[engineLog[m].by].input = <<EntryWith(FnArray), EntryWith(FnNull)>>
         /\ engineLog[m].data = <<EntryWith(FnArray), EntryWith(FnEmptyArray)>>

\* Whether addCoverageData call k got as far as calling the engine's add().
ReachedAdd(k) ==
  \/ addTask[k].pc \in {"awaitAdd", "resolved"}
  \/ addTask[k].pc = "rejected" /\ ~addTask[k].initFailed

\* C9: every addCoverageData that gets past initializeMCR calls the engine's
\* add exactly once, with its normalized batch, and no other add happens; the
\* same batch given twice is added twice.
C9_OneAddPerBatch ==
  /\ \A k \in CallIds :
       /\ Cardinality(EventsBy("add", k)) = IF ReachedAdd(k) THEN 1 ELSE 0
       /\ \A n \in EventsBy("add", k) : engineLog[n].data = addTask[k].data
  /\ Cardinality({n \in 1..Len(engineLog) : engineLog[n].op = "add"})
       = Cardinality({k \in CallIds : ReachedAdd(k)})

\* The same batch was given twice, both calls resolved, and the engine holds
\* two adds of equal content.
C9_Witness ==
  \E k1, k2 \in SuiteCalls :
    /\ k1 # k2
    /\ addTask[k1].input = addTask[k2].input
    /\ Len(addTask[k1].input) > 0
    /\ addTask[k1].pc = "resolved" /\ addTask[k2].pc = "resolved"
    /\ \E n1 \in EventsBy("add", k1), n2 \in EventsBy("add", k2) :
         n1 # n2 /\ engineLog[n1].data = engineLog[n2].data

SkippingWarning(k) ==
  Log("warn", "Non-V8 coverage data provided to generateReport, skipping transformation",
      <<"generateReport", k>>)

\* C10: generateReport(x) with x given and not an array never calls the
\* engine's add and, once past initializeMCR, has logged the "skipping
\* transformation" warning and called generate() exactly once.
C10_NonArrayExtraWarns ==
  \A k \in ReportCalls :
    (genTask[k].extra.kind \notin {"undefined", "array"} /\ ReachedGenerate(k))
      => /\ SkippingWarning(k) \in logs
         /\ EventsBy("add", k) = {}
         /\ Cardinality(EventsBy("generate", k)) = 1

GenerateFailedLog(k) ==
  Log("error", "Failed to generate Monocart coverage report", <<"generateReport", k>>)

\* C11: generateReport called on the Reporter never swallows a failure: when
\* the engine cannot be constructed it rejects with the error of initializeMCR
\* and generate() is not called; when generate() (or the add of the extra
\* batch) fails it logs the failure and rejects with that error; it resolves
\* only when nothing failed.
C11_GenerateReportPropagatesFailure ==
  \A k \in ReportCalls :
    /\ (genTask[k].initFailed /\ genTask[k].pc # "awaitInit")
         => (genTask[k].pc = "rejected" /\ genTask[k].error = "init" /\ EventsBy("generate", k) = {})
    /\ GenerateFailedLog(k) \in logs
         => /\ genTask[k].pc = "rejected"
            /\ genTask[k].error = IF EventsBy("generate", k) # {} THEN "generate" ELSE "add"
    /\ genTask[k].pc = "resolved"
         => (~genTask[k].initFailed /\ GenerateFailedLog(k) \notin logs /\ genTask[k].error = "none")
    /\ genTask[k].pc = "rejected" <=> genTask[k].error # "none"

\* One generateReport rejected because no engine could be constructed, another
\* because generate() failed.
C11_Witness ==
  \E k1, k2 \in ReportCalls :
    /\ adapter = "direct"
    /\ genTask[k1].pc = "rejected" /\ genTask[k1].error = "init"
    /\ genTask[k2].pc = "rejected" /\ genTask[k2].error = "generate"
    /\ GenerateFailedLog(k2) \in logs

\* C12: over any interleaving of addCoverageData and generateReport calls on
\* one Reporter, no engine exists before the first call, at most one engine is
\* ever constructed, and every add and generate goes to that one engine.
C12_SingleEngine ==
  /\ mcrCreated <= 1
  /\ (mcr # "null" <=> mcrCreated = 1)
  /\ ((\A k \in CallIds : calls[k].kind = "idle") => (mcr = "null" /\ mcrCreated = 0))
  /\ \A n \in 1..Len(engineLog) : engineLog[n].engine = 1

\* Calls made after the engine was constructed, one of them after a failed
\* construction, have all used the one engine.
C12_Witness ==
  /\ adapter = "direct"
  /\ mcrCreated = 1
  /\ \E k1, k2 \in CallIds :
       /\ k1 # k2
       /\ EventsBy("add", k1) # {}
       /\ EventsBy("generate", k2) # {}

\* The in-process onAfterSuiteRun calls that reached the reporter.
InProcForwarded == {k \in SuiteCalls : adapter = "inproc" /\ k \in AddInvoked}
\* What the host's cache for the suite's mode held for path p before any suite ran.
CachedFor(k, p) == InitialCtxCache[<<calls[k].meta.projectName, calls[k].meta.transformMode>>][p]
IsCachedFor(k, p) ==
  p \in DOMAIN InitialCtxCache[<<calls[k].meta.projectName, calls[k].meta.transformMode>>]
\* Entry i of the snapshot lacks a source and its url resolves to a cached path.
Enrichable(k, i) ==
  /\ SuiteEntries[i].source \in {Undefined, ""}
  /\ SuiteEntries[i].url.valid
  /\ IsCachedFor(k, SuiteEntries[i].url.pathname)

\* C13: in the in-process adapter every snapshot entry that lacks a source and
\* whose url resolves to a path of the selected transform cache is forwarded
\* with source = the cached compiled code and scriptOffset = the entry's own
\* declared wrapper offset, or 185 when it declares none.
C13_EnrichedSourceAndOffset ==
  \A k \in InProcForwarded :
    /\ Len(addTask[k].input) = Len(SuiteEntries)
    /\ \A i \in 1..Len(SuiteEntries) :
         Enrichable(k, i) =>
           /\ addTask[k].input[i].source = CachedFor(k, SuiteEntries[i].url.pathname).code
           /\ addTask[k].input[i].scriptOffset =
                IF SuiteEntries[i].startOffset = UndefinedNum THEN 185
                                                              ELSE SuiteEntries[i].startOffset

\* Resolving the relative path r against the directory d: ".." leaves a directory.
RECURSIVE ResolveFrom(_, _)
ResolveFrom(d, r) ==
  IF r = <<>> THEN d
  ELSE IF Head(r) = ".." THEN ResolveFrom(SubSeq(d, 1, Len(d) - 1), Tail(r))
  ELSE ResolveFrom(Append(d, Head(r)), Tail(r))
\* r is the path of p relative to d: it leads from d to p, climbs only at its
\* start and no further than needed.
IsRelativeTo(r, d, p) ==
  /\ ResolveFrom(d, r) = p
  /\ \A i \in 1..Len(r) : r[i] = ".." => (i <= Len(d) /\ \A j \in 1..i : r[j] = "..")
  /\ \A i \in 1..Len(r) : (r[i] = ".." /\ Len(p) > Len(d) - i) => p[Len(d) - i + 1] # d[Len(d) - i + 1]

\* C14: in the in-process adapter an enriched entry whose cached transform
\* result has a source map is forwarded with a sourceMap whose sources is
\* exactly one path, the file's path relative to the working directory; when the
\* cached result has no map, no sourceMap is attached.
C14_SourceMapSourcesRelative ==
  \A k \in InProcForwarded :
    \A i \in 1..Len(SuiteEntries) :
      Enrichable(k, i) =>
        LET out == addTask[k].input[i]
            p == SuiteEntries[i].url.pathname
        IN IF CachedFor(k, p).map.present
             THEN /\ out.sourceMap.present
                  /\ Len(out.sourceMap.sources) = 1
                  /\ IsRelativeTo(out.sourceMap.sources[1], Cwd, p)
             ELSE out.sourceMap = SuiteEntries[i].sourceMap /\ ~out.sourceMap.present

\* A forwarded batch with a map rewritten to a path below the working
\* directory, one rewritten to a path outside it, and an enriched entry
\* without a map.
C14_Witness ==
  \E k \in InProcForwarded :
    /\ addTask[k].pc = "resolved"
    /\ addTask[k].input[1].sourceMap.sources = <<<<"src", "a.ts">>>>
    /\ addTask[k].input[5].sourceMap.sources = <<<<"..", "other", "lib", "d.ts">>>>
    /\ addTask[k].input[4].source = "compiled-c"
    /\ ~addTask[k].input[4].sourceMap.present

----------------------------------------------------------------------------
(* browser-runtime.ts: the URL filter *)

\* A string is a sequence of tokens; a token stands for the characters of its
\* name, and no token is a proper part of another one that is used.
SeqsUpTo(S, n) == UNION {[1..m -> S] : m \in 0..n}
StartsWith(str, prefix) ==
  Len(str) >= Len(prefix) /\ SubSeq(str, 1, Len(prefix)) = prefix
\* String.prototype.indexOf, 1-based; 0 when there is no occurrence.
IndexOf(str, pat) ==
  LET hits == {i \in 1..(Len(str) - Len(pat) + 1) : SubSeq(str, i, i + Len(pat) - 1) = pat}
  IN IF hits = {} THEN 0 ELSE CHOOSE i \in hits : \A j \in hits : i <= j
Includes(str, pat) == IndexOf(str, pat) # 0
\* String.prototype.replace with a string pattern: the first occurrence only.
ReplaceFirst(str, pat, by) ==
  LET i == IndexOf(str, pat)
  IN IF i = 0 THEN str
     ELSE SubSeq(str, 1, i - 1) \o by \o SubSeq(str, i + Len(pat), Len(str))

\* decodeURIComponent: an escape becomes its character, a lone "%" is a URIError.
DecodeToken(t) ==
  IF t = "%2F" THEN "/" ELSE IF t = "%40vite" THEN "@vite" ELSE IF t = "%40fs" THEN "@fs" ELSE t
DecodeThrows(str) == \E i \in 1..Len(str) : str[i] = "%"
decodeURIComponent(str) == [i \in 1..Len(str) |-> DecodeToken(str[i])]

\* window.location.origin of the page, and `${origin}/`.
Origin == <<"http://localhost:3000">>
OriginSlash(origin) == origin \o <<"/">>

\* browser-runtime.ts:27
OriginPrefix(url, origin) == StartsWith(url, origin)

\* shouldIncludeUrl (browser-runtime.ts:26-46); "throws" is the URIError of
\* decodeURIComponent.
shouldIncludeUrl(url, origin) ==
  IF ~OriginPrefix(url, origin) THEN "false"
  ELSE IF Includes(url, <<"/", "node_modules", "/">>) THEN "false"
  ELSE LET stripped == ReplaceFirst(url, OriginSlash(origin), <<>>)
       IN IF DecodeThrows(stripped) THEN "throws"
          ELSE LET relativeUrl == decodeURIComponent(stripped)
               IN IF StartsWith(relativeUrl, <<"__vitest_">>) THEN "false"
                  ELSE IF StartsWith(relativeUrl, <<"@vite", "/">>) THEN "false"
                  ELSE "true"

\* The URLs given to shouldIncludeUrl: the empty string, the origin itself, and
\* a path on the page's origin, on the same host at port 30001, whose origin
\* continues the page's by one digit, and on another site.
UrlHeads ==
  {OriginSlash(Origin), Origin \o <<"1", "/">>, <<"https://other.example", "/">>}
UrlTailTokens == {"__vitest_", "@vite", "@fs", "/", "node_modules", "src", "%2F", "%40vite", "%"}
ProbeUrls ==
  {<<>>, Origin} \cup {h \o t : h \in UrlHeads, t \in SeqsUpTo(UrlTailTokens, MaxUrlTail)}

\* A caller evaluates shouldIncludeUrl(url, origin).
ShouldIncludeUrlCalled ==
  /\ probe.fn = "shouldIncludeUrl"
  /\ ~probe.done
  /\ probe' = [probe EXCEPT !.done = TRUE, !.result = shouldIncludeUrl(probe.url, probe.origin)]
  /\ UNCHANGED <<adapterVars, collector>>

InitUrl ==
  /\ InitWith({"none"})
  /\ collector = IdleCollector
  /\ \E url \in ProbeUrls :
       probe = [fn |-> "shouldIncludeUrl", url |-> url, origin |-> Origin, done |-> FALSE,
                result |-> "none"]

NextUrl == ShouldIncludeUrlCalled

SpecUrl == InitUrl /\ [][NextUrl]_vars

\* The URL belongs to the page's origin: it is the origin or continues it with "/".
UnderOrigin(url, origin) == url = origin \/ StartsWith(url, origin \o <<"/">>)
\* The URL without its origin, percent-decoded.
RelativeForm(url, origin) ==
  decodeURIComponent(IF StartsWith(url, origin \o <<"/">>)
                       THEN SubSeq(url, Len(origin) + 2, Len(url)) ELSE url)

\* C15: shouldIncludeUrl(url, origin) returns true exactly when the URL is
\* under the page origin, its origin-stripped, percent-decoded relative form
\* starts with neither "__vitest_" nor "@vite/", and the URL contains no
\* "/node_modules/"; it returns false otherwise.  "@fs/" alone never rejects.
C15_ShouldIncludeUrlExact ==
  (probe.fn = "shouldIncludeUrl" /\ probe.done)
    => /\ probe.result \in {"true", "false"}
       /\ probe.result = "true"
            <=> /\ UnderOrigin(probe.url, probe.origin)
                /\ ~StartsWith(RelativeForm(probe.url, probe.origin), <<"__vitest_">>)
                /\ ~StartsWith(RelativeForm(probe.url, probe.origin), <<"@vite", "/">>)
                /\ ~Includes(probe.url, <<"/", "node_modules", "/">>)

----------------------------------------------------------------------------
(* browser-runtime.ts: the collector *)

\* A normalizeUrl that leaves "@fs/" in place.
normalizeUrlKeepsFs(url, origin) == decodeURIComponent(ReplaceFirst(url, OriginSlash(origin), <<>>))

\* normalizeUrl (browser-runtime.ts:52-61), called on URLs that
\* decodeURIComponent accepts.
normalizeUrl(url, origin) ==
  LET normalizedUrl == decodeURIComponent(ReplaceFirst(url, OriginSlash(origin), <<>>))
  IN IF StartsWith(normalizedUrl, <<"@fs", "/">>)
       THEN SubSeq(normalizedUrl, 3, Len(normalizedUrl))
       ELSE normalizedUrl

\* The scripts of the page and the text Debugger.getScriptSource has for each.
ScriptIds == {"s1", "s2", "s3"}
ScriptText(id) == <<"source of", id>>
NoSource == <<>>

\* An entry of Profiler.takePreciseCoverage: hasUrl is FALSE for an anonymous
\* script.
SnapshotEntry(hasUrl, url, id) == [hasUrl |-> hasUrl, url |-> url, scriptId |-> id]
SnapshotEntries ==
  {SnapshotEntry(TRUE, OriginSlash(Origin) \o <<"src">>, "s1"),
   SnapshotEntry(TRUE, OriginSlash(Origin) \o <<"@fs", "/", "src">>, "s2"),
   SnapshotEntry(TRUE, OriginSlash(Origin) \o <<"__vitest_">>, "s3"),
   SnapshotEntry(TRUE, <<"https://other.example", "/", "src">>, "s1"),
   SnapshotEntry(TRUE, OriginSlash(Origin) \o <<"src", "%">>, "s2"),
   SnapshotEntry(FALSE, <<>>, "s3")}
Snapshots == SeqsUpTo(SnapshotEntries, MaxSnapshot)

\* browser-runtime.ts:170: entry.url = entry.url || ''
UrlOrEmpty(e) == IF e.hasUrl THEN e.url ELSE <<>>

IdleTake == [pc |-> "idle", snapshot |-> <<>>, i |-> 1, result |-> <<>>, failed |-> FALSE]
\* takeCoverage returns `result`; failed is the console.error of its catch.
Returned(take, result, failed) ==
  [take EXCEPT !.pc = "returned", !.result = result, !.failed = failed]

\* The loop of takeCoverage from entry i on (browser-runtime.ts:168-204), as far
\* as it runs without waiting: to its end, to a throw of the filter, or to the
\* first accepted entry whose source is not cached.
RECURSIVE LoopFrom(_, _, _, _)
LoopFrom(take, i, result, cached) ==
  IF i > Len(take.snapshot) THEN Returned(take, result, FALSE)
  ELSE LET entry == take.snapshot[i]
           url == UrlOrEmpty(entry)
           verdict == shouldIncludeUrl(url, Origin)
       IN IF verdict = "throws" THEN Returned(take, <<>>, TRUE)
          ELSE IF verdict = "false" THEN LoopFrom(take, i + 1, result, cached)
          ELSE IF entry.scriptId \in cached
            THEN LoopFrom(take, i + 1,
                          Append(result, [url |-> normalizeUrl(url, Origin), scriptId |-> entry.scriptId,
                                          source |-> ScriptText(entry.scriptId)]),
                          cached)
            ELSE [take EXCEPT !.pc = "awaitSource", !.i = i, !.result = result]

\* new BrowserCoverageCollector() (browser-runtime.ts:87-95); `available` are
\* the scripts whose source the protocol can deliver.
InitCollector ==
  /\ InitWith({"none"})
  /\ probe = IdleProbe
  /\ \E cdp \in BOOLEAN, available \in SUBSET ScriptIds :
       collector = [phase |-> "constructed", cdp |-> cdp, isStarted |-> FALSE,
                    available |-> available, scriptSources |-> {}, takes |-> 0, take |-> IdleTake]

\* startCoverage (browser-runtime.ts:126-152).
CollectorStartCoverage ==
  /\ collector.phase = "constructed"
  /\ collector.cdp /\ ~collector.isStarted
  /\ collector' = [collector EXCEPT !.isStarted = TRUE]
  /\ UNCHANGED <<adapterVars, probe>>

\* The Debugger.scriptParsed handler (browser-runtime.ts:104-115) for script
\* id: its source is fetched and cached.
ScriptParsed(id) ==
  /\ collector.phase = "constructed"
  /\ collector.isStarted
  /\ id \in collector.available
  /\ id \notin collector.scriptSources
  /\ collector' = [collector EXCEPT !.scriptSources = @ \cup {id}]
  /\ UNCHANGED <<adapterVars, probe>>

\* takeCoverage up to `await this.cdp.send('Profiler.takePreciseCoverage')`
\* (browser-runtime.ts:160-165).
TakeCoverageCalled ==
  /\ collector.phase = "constructed"
  /\ collector.take.pc \in {"idle", "returned"}
  /\ collector.takes < MaxTakes
  /\ collector' = [collector EXCEPT
                     !.takes = @ + 1,
                     !.take = IF ~collector.cdp \/ ~collector.isStarted
                                THEN Returned(IdleTake, <<>>, FALSE)
                                ELSE [IdleTake EXCEPT !.pc = "awaitSnapshot"]]
  /\ UNCHANGED <<adapterVars, probe>>

\* Profiler.takePreciseCoverage settles (browser-runtime.ts:165-204): it
\* rejects, or gives a snapshot and the loop starts.
SnapshotArrives ==
  /\ collector.phase = "constructed"
  /\ collector.take.pc = "awaitSnapshot"
  /\ \/ collector' = [collector EXCEPT !.take = Returned(@, <<>>, TRUE)]
     \/ \E snapshot \in Snapshots :
          collector' = [collector EXCEPT
                          !.take = LoopFrom([@ EXCEPT !.snapshot = snapshot], 1, <<>>,
                                            collector.scriptSources)]
  /\ UNCHANGED <<adapterVars, probe>>

\* Debugger.getScriptSource for the entry the loop waits at settles
\* (browser-runtime.ts:185-198): it rejects, or gives the source or nothing,
\* and the loop goes on.
SourceArrives ==
  /\ collector.phase = "constructed"
  /\ collector.take.pc = "awaitSource"
  /\ LET take == collector.take
         entry == take.snapshot[take.i]
         got == entry.scriptId \in collector.available
         cached == IF got THEN collector.scriptSources \cup {entry.scriptId}
                          ELSE collector.scriptSources
         pushed == Append(take.result,
                          [url |-> normalizeUrl(UrlOrEmpty(entry), Origin), scriptId |-> entry.scriptId,
                           source |-> IF got THEN ScriptText(entry.scriptId) ELSE NoSource])
     IN \/ collector' = [collector EXCEPT !.take = Returned(@, <<>>, TRUE)]
        \/ collector' = [collector EXCEPT !.scriptSources = cached,
                                          !.take = LoopFrom(take, take.i + 1, pushed, cached)]
  /\ UNCHANGED <<adapterVars, probe>>

NextCollector ==
  \/ CollectorStartCoverage
  \/ \E id \in ScriptIds : ScriptParsed(id)
  \/ TakeCoverageCalled
  \/ SnapshotArrives
  \/ SourceArrives

SpecCollector == InitCollector /\ [][NextCollector]_vars

\* The entry passes the URL filter.
PassesFilter(e) == shouldIncludeUrl(UrlOrEmpty(e), Origin) = "true"
\* The normalized relative form of a URL: origin removed, percent-decoded, a
\* leading "@fs/" stripped.
NormalizedForm(url) ==
  LET rel == RelativeForm(url, Origin)
  IN IF StartsWith(rel, <<"@fs", "/">>) THEN SubSeq(rel, 3, Len(rel)) ELSE rel
\* What the claim says the collector returns for a snapshot.
ExpectedBatch(snapshot) ==
  LET kept == SelectSeq(snapshot, PassesFilter)
  IN [n \in 1..Len(kept) |->
        [url |-> NormalizedForm(kept[n].url), scriptId |-> kept[n].scriptId,
         source |-> IF kept[n].scriptId \in collector.available
                      THEN ScriptText(kept[n].scriptId) ELSE NoSource]]
TakeReturned == collector.phase = "constructed" /\ collector.take.pc = "returned"

\* C16 as stated: for every snapshot the collector takes, the batch returned
\* holds exactly the entries that pass the URL filter, in snapshot order, each
\* with its url normalized and its source the script's text, or "" when there
\* is none.
C16_BatchIsFilteredSnapshot ==
  TakeReturned => collector.take.result = ExpectedBatch(collector.take.snapshot)

\* C16, amended: the same, unless a protocol call rejects or a URL cannot be
\* decoded while the snapshot is processed: then the failure is logged and the
\* batch returned is empty, whatever the snapshot held.
C16_BatchIsFilteredSnapshotOrEmpty ==
  TakeReturned =>
    IF collector.take.failed
      THEN collector.take.result = <<>>
      ELSE collector.take.result = ExpectedBatch(collector.take.snapshot)

\* A snapshot of an "@fs/" script and a framework script came back as the one
\* "@fs/"-stripped entry, with the source fetched on demand and now cached.
C16_Witness ==
  /\ TakeReturned
  /\ ~collector.take.failed
  /\ Len(collector.take.snapshot) = 2
  /\ collector.take.snapshot[2].url = OriginSlash(Origin) \o <<"__vitest_">>
  /\ collector.take.result =
       <<[url |-> <<"src">>, scriptId |-> "s2", source |-> ScriptText("s2")]>>
  /\ "s2" \in collector.scriptSources

----------------------------------------------------------------------------
(* config.ts: createSourceFilter *)

\* String.prototype.replace(/\\/g, '/')
SlashesForward(str) == [i \in 1..Len(str) |-> IF str[i] = "\\" THEN "/" ELSE str[i]]

\* normalizePattern (config.ts:101-103): a leading "./" is removed, backslashes
\* become slashes.
normalizePattern(pattern) ==
  SlashesForward(IF StartsWith(pattern, <<".", "/">>) THEN SubSeq(pattern, 3, Len(pattern))
                                                      ELSE pattern)

\* The matcher picomatch(pattern) applied to a path: a literal token matches
\* itself, "*" one path segment, "**" any run of segments, and a leading "**/"
\* also nothing.
RECURSIVE picomatch(_, _)
picomatch(pattern, path) ==
  IF pattern = <<>> THEN path = <<>>
  ELSE IF Head(pattern) = "**"
    THEN \/ \E n \in 0..Len(path) : picomatch(Tail(pattern), SubSeq(path, n + 1, Len(path)))
         \/ Len(pattern) >= 2 /\ pattern[2] = "/" /\ picomatch(SubSeq(pattern, 3, Len(pattern)), path)
  ELSE IF path = <<>> THEN FALSE
  ELSE IF Head(pattern) = "*" THEN Head(path) # "/" /\ picomatch(Tail(pattern), Tail(path))
  ELSE Head(pattern) = Head(path) /\ picomatch(Tail(pattern), Tail(path))

\* process.cwd() as a string.
CwdString == <<"/", "proj">>
\* The segments of a path whose segments are one token each, and back.
Segments(str) == SelectSeq(str, LAMBDA t : t # "/")
RECURSIVE JoinSegments(_)
JoinSegments(segs) ==
  IF segs = <<>> THEN <<>>
  ELSE IF Len(segs) = 1 THEN segs
  ELSE <<Head(segs), "/">> \o JoinSegments(Tail(segs))
\* path.relative(cwd, filePath): a relative filePath is resolved against cwd
\* first, so it comes back as it is.
NodeRelative(filePath) ==
  IF filePath # <<>> /\ Head(filePath) = "/"
    THEN JoinSegments(relativePath(Segments(filePath)))
    ELSE filePath

\* toRelativePath (config.ts:79-90).
toRelativePath(filePath) ==
  LET normalized == SlashesForward(filePath)
  IN IF StartsWith(normalized, CwdString)
       THEN SubSeq(normalized, Len(CwdString) + 2, Len(normalized))
       ELSE SlashesForward(NodeRelative(filePath))

\* A filter that lets an include match decide before the excludes are tried.
SourceFilterIncludeFirst(include, exclude, sourcePath) ==
  LET rel == toRelativePath(sourcePath)
  IN IF \E i \in 1..Len(include) : picomatch(normalizePattern(include[i]), rel) THEN TRUE
     ELSE IF \E i \in 1..Len(exclude) : picomatch(normalizePattern(exclude[i]), rel) THEN FALSE
     ELSE include = <<>>

\* The function createSourceFilter(include, exclude) returns, applied to
\* sourcePath (config.ts:115-133).
SourceFilter(include, exclude, sourcePath) ==
  LET rel == toRelativePath(sourcePath)
  IN IF \E i \in 1..Len(exclude) : picomatch(normalizePattern(exclude[i]), rel) THEN FALSE
     ELSE IF Len(include) > 0
       THEN \E i \in 1..Len(include) : picomatch(normalizePattern(include[i]), rel)
       ELSE TRUE

\* Patterns: "src/**", "./lib/**", "**/a.test.ts", "src\*".
GlobPatterns ==
  {<<"src", "/", "**">>, <<".", "/", "lib", "/", "**">>, <<"**", "/", "a.test.ts">>,
   <<"src", "\\", "*">>}
\* Paths: relative ones, absolute ones below the working directory, one in a
\* sibling directory /proj2, one elsewhere.
FilterPaths ==
  {<<"src", "/", "a.ts">>, <<"src", "/", "a.test.ts">>, <<"a.test.ts">>,
   <<"/", "proj", "/", "src", "/", "util", "/", "a.ts">>, <<"/", "proj", "/", "lib", "/", "b.ts">>,
   <<"/", "proj", "2", "/", "src", "/", "a.ts">>, <<"/", "other", "/", "src", "/", "a.ts">>}

\* A caller builds the filter and applies it to a path.
SourceFilterCalled ==
  /\ probe.fn = "createSourceFilter"
  /\ ~probe.done
  /\ probe' = [probe EXCEPT !.done = TRUE,
                            !.result = SourceFilter(probe.include, probe.exclude, probe.path)]
  /\ UNCHANGED <<adapterVars, collector>>

InitSourceFilter ==
  /\ InitWith({"none"})
  /\ collector = IdleCollector
  /\ \E include \in SeqsUpTo(GlobPatterns, MaxPatterns), exclude \in SeqsUpTo(GlobPatterns, MaxPatterns),
        path \in FilterPaths :
       probe = [fn |-> "createSourceFilter", include |-> include, exclude |-> exclude,
                path |-> path, done |-> FALSE, result |-> FALSE]

NextSourceFilter == SourceFilterCalled

SpecSourceFilter == InitSourceFilter /\ [][NextSourceFilter]_vars

\* Pattern pat, normalized, matches the path the filter works on.
PatternMatches(pat, path) == picomatch(normalizePattern(pat), toRelativePath(path))
AnyMatches(pats, path) == \E i \in 1..Len(pats) : PatternMatches(pats[i], path)

\* C17: the filter of createSourceFilter returns false if any exclude pattern
\* matches the path, whether or not an include pattern matches too; otherwise
\* true if the include list is empty, and otherwise true exactly when some
\* include pattern matches.  With both lists empty it is true for every path.
C17_ExcludeWinsThenInclude ==
  (probe.fn = "createSourceFilter" /\ probe.done)
    => /\ AnyMatches(probe.exclude, probe.path) => probe.result = FALSE
       /\ (~AnyMatches(probe.exclude, probe.path) /\ probe.include = <<>>) => probe.result = TRUE
       /\ (~AnyMatches(probe.exclude, probe.path) /\ probe.include # <<>>)
            => (probe.result = TRUE <=> AnyMatches(probe.include, probe.path))
       /\ (probe.include = <<>> /\ probe.exclude = <<>>) => probe.result = TRUE

\* A path that an include pattern and an exclude pattern both match was
\* rejected.
C17_Witness ==
  /\ probe.fn = "createSourceFilter" /\ probe.done
  /\ probe.path = <<"src", "/", "a.test.ts">>
  /\ probe.include = <<<<"src", "/", "**">>>>
  /\ probe.exclude = <<<<"**", "/", "a.test.ts">>>>
  /\ probe.result = FALSE

----------------------------------------------------------------------------
(* reporter.ts: createNormalizedSourceFilter *)

\* The strings the Report Engine hands to the filter: a plain path, or a
\* string that starts with http:// or https://.  After "scheme://host/" the
\* tail is the path and, from "?v" on, the query.
Schemes == {"http://", "https://"}
IsHttp(str) == str # <<>> /\ Head(str) \in Schemes
\* new URL(s): a bracket that is never closed is no host.
UrlThrows(str) == Len(str) >= 2 /\ str[2] = "[invalid-url"
\* URL.pathname: what follows the host up to the query, "/" when nothing
\* follows; a backslash of an http(s) URL is read as a slash.
pathname(str) ==
  LET rest == SubSeq(str, 3, Len(str))
      q    == IndexOf(rest, <<"?v">>)
      path == IF q = 0 THEN rest ELSE SubSeq(rest, 1, q - 1)
  IN IF path = <<>> THEN <<"/">> ELSE SlashesForward(path)

\* reporter.ts:120-125: the pathname, decoded, replaces an http(s) string;
\* the empty catch leaves the string as it was when URL or
\* decodeURIComponent throws.
PathnameStep(str) ==
  IF ~IsHttp(str) THEN str
  ELSE IF UrlThrows(str) \/ DecodeThrows(pathname(str)) THEN str
  ELSE decodeURIComponent(pathname(str))
\* .replace(/^@fs\//, '')
StripFs(str) == IF StartsWith(str, <<"@fs", "/">>) THEN SubSeq(str, 3, Len(str)) ELSE str
\* .replace(/^\/+/, '')
RECURSIVE StripLeadingSlashes(_)
StripLeadingSlashes(str) ==
  IF str # <<>> /\ Head(str) = "/" THEN StripLeadingSlashes(Tail(str)) ELSE str
\* s.includes('/'): the scheme tokens hold slashes too.
HasSlash(str) == \E i \in 1..Len(str) : str[i] \in {"/"} \cup Schemes
\* sourcePath.replace(/\/$/, '')
TrimTrailingSlash(str) ==
  IF str # <<>> /\ str[Len(str)] = "/" THEN SubSeq(str, 1, Len(str) - 1) ELSE str
\* reporter.ts:130-132: an empty sourcePath is falsy.
PrependAlways(sourcePath, str) ==
  IF ~HasSlash(str) THEN TrimTrailingSlash(sourcePath) \o <<"/">> \o str ELSE str
PrependSourcePath(sourcePath, str) ==
  IF ~HasSlash(str) /\ sourcePath # <<>>
    THEN TrimTrailingSlash(sourcePath) \o <<"/">> \o str
    ELSE str

\* A wrapper that strips the leading slashes before the "@fs/" marker.
NormalizedPathSlashesFirst(sourcePath, p) ==
  PrependSourcePath(sourcePath, SlashesForward(StripFs(StripLeadingSlashes(PathnameStep(p)))))

\* The string the wrapper hands to the user's filter (reporter.ts:119-132).
NormalizedPath(sourcePath, p) ==
  PrependSourcePath(sourcePath, SlashesForward(StripLeadingSlashes(StripFs(PathnameStep(p)))))

\* config.sourceFilter: not configured, or one of three user functions.
NoFilter == "undefined"
UserFilters == {"acceptAll", "rejectAll", "srcOnly"}
UserFilter(f, str) ==
  CASE f = "acceptAll" -> TRUE
    [] f = "rejectAll" -> FALSE
    [] f = "srcOnly"   -> StartsWith(str, <<"src", "/">>)

SourcePaths == {<<>>, <<"src">>, <<"src", "/">>}
FilterHeads ==
  {<<>>, <<"http://", "localhost:3000", "/">>, <<"https://", "localhost:5173", "/">>}
FilterTailTokens == {"/", "\\", "@fs", "src", "c.ts", "%2F", "%", "?v"}
FilterInputs ==
  {<<"http://", "[invalid-url">>, <<"http://", "localhost:3000">>}
    \cup {h \o t : h \in FilterHeads, t \in SeqsUpTo(FilterTailTokens, MaxFilterTail)}

\* The Report Engine calls the wrapper of reporter.ts:118-134 with p.
NormalizedFilterCalled ==
  /\ probe.fn = "createNormalizedSourceFilter"
  /\ ~probe.done
  /\ LET s == NormalizedPath(probe.config.sourcePath, probe.p)
         f == probe.config.sourceFilter
     IN probe' = [probe EXCEPT
          !.done = TRUE,
          !.calls = IF f = NoFilter THEN <<>> ELSE <<s>>,
          !.result = IF f = NoFilter THEN TRUE ELSE UserFilter(f, s)]
  /\ UNCHANGED <<adapterVars, collector>>

InitNormalizedFilter ==
  /\ InitWith({"none"})
  /\ collector = IdleCollector
  /\ \E p \in FilterInputs, sp \in SourcePaths, f \in UserFilters \cup {NoFilter} :
       probe = [fn |-> "createNormalizedSourceFilter", p |-> p,
                config |-> [sourcePath |-> sp, sourceFilter |-> f], given |-> f,
                done |-> FALSE, calls |-> <<>>, result |-> FALSE]

NextNormalizedFilter == NormalizedFilterCalled

SpecNormalizedFilter == InitNormalizedFilter /\ [][NextNormalizedFilter]_vars

\* The path of the five steps as the claim lists them; an http(s) string that
\* has no decoded pathname has no such path.
HasDecodedPathname(p) == ~UrlThrows(p) /\ ~DecodeThrows(pathname(p))
ClaimedPath(sourcePath, p) ==
  PrependAlways(sourcePath,
    SlashesForward(StripLeadingSlashes(StripFs(
      IF IsHttp(p) THEN decodeURIComponent(pathname(p)) ELSE p))))
FilterReturned == probe.fn = "createNormalizedSourceFilter" /\ probe.done

\* C18 (as stated): the wrapper calls the configured sourceFilter exactly once,
\* with the decoded pathname of an http(s) URL (the string itself otherwise)
\* after stripping a leading "@fs/", then leading slashes, then converting
\* backslashes, then prepending sourcePath and "/" when no "/" is left; it
\* returns the user's result, true when no filter is configured, and leaves
\* config.sourceFilter as it was.
C18_NormalizedThenUserFilter ==
  FilterReturned =>
    /\ probe.config.sourceFilter = probe.given
    /\ probe.given = NoFilter => (probe.result = TRUE /\ probe.calls = <<>>)
    /\ probe.given # NoFilter =>
         /\ Len(probe.calls) = 1
         /\ IsHttp(probe.p) => HasDecodedPathname(probe.p)
         /\ probe.calls[1] = ClaimedPath(probe.config.sourcePath, probe.p)
         /\ probe.result = UserFilter(probe.given, probe.calls[1])

\* C18 (amended): as above, except that an http(s) string whose URL does not
\* parse or whose pathname does not decode goes on to the later steps as it
\* is, and that sourcePath is prepended only when it is not empty.
C18_NormalizedThenUserFilterGuarded ==
  FilterReturned =>
    /\ probe.config.sourceFilter = probe.given
    /\ probe.given = NoFilter => (probe.result = TRUE /\ probe.calls = <<>>)
    /\ probe.given # NoFilter =>
         /\ Len(probe.calls) = 1
         /\ LET reduced == IF IsHttp(probe.p) /\ HasDecodedPathname(probe.p)
                             THEN decodeURIComponent(pathname(probe.p)) ELSE probe.p
                cleaned == SlashesForward(StripLeadingSlashes(StripFs(reduced)))
            IN probe.calls[1] =
                 IF HasSlash(cleaned) \/ probe.config.sourcePath = <<>> THEN cleaned
                 ELSE TrimTrailingSlash(probe.config.sourcePath) \o <<"/">> \o cleaned
         /\ probe.result = UserFilter(probe.given, probe.calls[1])

\* An https URL whose path holds "/@fs/" reached the user's filter with the
\* marker still in place, and a bare file name reached it below sourcePath.
C18_Witness ==
  /\ FilterReturned
  /\ probe.given = "srcOnly"
  /\ \/ /\ probe.p = <<"https://", "localhost:5173", "/", "@fs", "/", "src">>
        /\ probe.calls = <<<<"@fs", "/", "src">>>>
        /\ probe.result = FALSE
     \/ /\ probe.p = <<"c.ts">>
        /\ probe.config.sourcePath = <<"src", "/">>
        /\ probe.calls = <<<<"src", "/", "c.ts">>>>
        /\ probe.result = TRUE

----------------------------------------------------------------------------
(* config.ts: resolveMonocartConfig *)

\* The options of RequiredMonocartCoverageOptions that some source besides
\* the defaults can set.  A value names the source it came from; an object
\* that has no such property holds Absent, one whose property is undefined
\* holds Undefined.
Fields == {"name", "outputDir", "cleanCache", "logging", "sourcePath", "sourceFilter"}
Absent == "absent"
DEFAULT_CONFIG == [f \in Fields |-> "default"]
\* { ...base, ...over }: every own property of over is copied, an undefined
\* one too.
SpreadInto(base, over) == [f \in Fields |-> IF over[f] # Absent THEN over[f] ELSE base[f]]

\* configFiles (config.ts:224-230): monocart.config.<ext>.
configFiles == <<"mjs", "js", "cjs", "ts", "json">>
\* What is at a candidate's path: no file; a file whose load throws, with or
\* without "Invalid" in the error's message (V8 reports a stray character as
\* "Invalid or unexpected token"); a file that yields null; an object that
\* fails validateExternalConfig; an object with some or all of the options.
FileKinds == {"absent", "throws", "throwsInvalid", "nothing", "invalid", "config"}
FileObject(i, kind) ==
  [f \in Fields |->
     IF kind = "partial" THEN (IF f = "name" THEN configFiles[i] ELSE Absent)
     ELSE IF f \in {"name", "outputDir", "logging", "sourceFilter"} THEN configFiles[i]
     ELSE Absent]
\* The loader of configLoaders for the candidate: the .ts loader catches
\* every failure and returns null (config.ts:178-198).
LoaderResult(i, kind) ==
  IF kind \in {"throws", "throwsInvalid"}
    THEN (IF configFiles[i] = "ts" THEN "nothing" ELSE kind)
    ELSE IF kind = "nothing" THEN "nothing" ELSE "object"

\* validateExternalConfig (config.ts:13-53): the fields it checks, in the
\* order it checks them, and what its message says it expected.  wrong is the
\* set of wrongly typed fields of the loaded object; the first one checked is
\* the one the error names.
ValidatedFields == <<"outputDir", "reports", "sourceFilter", "logging", "onEnd">>
ExpectedType(field) ==
  CASE field = "outputDir"    -> "string"
    [] field = "reports"      -> "array"
    [] field = "sourceFilter" -> "function"
    [] field = "logging"      -> "one of debug, info, warn, error"
    [] field = "onEnd"        -> "function"
FirstWrong(wrong) ==
  ValidatedFields[CHOOSE i \in 1..Len(ValidatedFields) :
                    /\ ValidatedFields[i] \in wrong
                    /\ \A j \in 1..(i - 1) : ValidatedFields[j] \notin wrong]
NoError == [kind |-> "none"]
ValidationError(i, wrong) ==
  [kind |-> "validation", field |-> FirstWrong(wrong),
   expected |-> ExpectedType(FirstWrong(wrong)), file |-> configFiles[i]]
LoadError(i) == [kind |-> "load", file |-> configFiles[i]]

\* The first candidate from index from on that existsSync finds, or
\* Len(configFiles) + 1.
RECURSIVE NextExisting(_, _)
NextExisting(files, from) ==
  IF from > Len(configFiles) THEN from
  ELSE IF files[from] # "absent" THEN from
  ELSE NextExisting(files, from + 1)

\* config.ts:258-289: what the Vitest context sets.
NoCtx == [present |-> FALSE]
ApplyVitest(config, v) ==
  IF ~v.present THEN config
  ELSE [config EXCEPT
          !["outputDir"]    = IF v.reportsDirectory # "" THEN "vitest" ELSE @,
          !["cleanCache"]   = IF v.clean # Undefined THEN "vitest" ELSE @,
          !["name"]         = IF v.name # "" THEN "vitest" ELSE @,
          !["sourcePath"]   = IF v.patterns = "include" THEN "vitest" ELSE @,
          !["sourceFilter"] = IF v.patterns # "none" THEN "vitest" ELSE @]
\* config.ts:291-293
NoOptions == [f \in Fields |-> Absent]
ApplyCustom(config, custom) == SpreadInto(config, custom)
\* config.ts:258-295, run without an await once the loop is left.
AfterFiles(config, v, custom) == ApplyCustom(ApplyVitest(config, v), custom)

\* The loop of config.ts:232-255 goes on from candidate from: the next
\* existing candidate's loader is called, or the loop ends and the function
\* returns.
LoopOn(pr, from) ==
  LET j == NextExisting(pr.files, from)
  IN IF j <= Len(configFiles)
       THEN [pr EXCEPT !.pc = "loading", !.i = j, !.loaded = Append(@, j)]
       ELSE [pr EXCEPT !.pc = "returned", !.config = AfterFiles(@, pr.vitest, pr.custom)]

\* resolveMonocartConfig is called and runs to its first await.
ResolveCalled ==
  /\ probe.fn = "resolveMonocartConfig"
  /\ probe.pc = "start"
  /\ probe' = LoopOn([probe EXCEPT !.config = DEFAULT_CONFIG], 1)
  /\ UNCHANGED <<adapterVars, collector>>

\* The loader of candidate i settles (config.ts:241-254).
LoaderSettles ==
  /\ probe.fn = "resolveMonocartConfig"
  /\ probe.pc = "loading"
  /\ LET i    == probe.i
         kind == probe.files[i]
         res  == LoaderResult(i, kind)
     IN probe' =
          CASE res = "object" /\ kind = "invalid" ->
                 [probe EXCEPT !.pc = "rejected", !.error = ValidationError(i, probe.wrong)]
            [] res = "object" /\ kind # "invalid" ->
                 [probe EXCEPT !.pc = "returned",
                               !.merged = Append(@, i),
                               !.config = AfterFiles(SpreadInto(@, FileObject(i, kind)),
                                                     probe.vitest, probe.custom)]
            [] res = "nothing" -> LoopOn(probe, i + 1)
            [] res = "throwsInvalid" -> [probe EXCEPT !.pc = "rejected", !.error = LoadError(i)]
            [] res = "throws" -> LoopOn([probe EXCEPT !.warned = Append(@, i)], i + 1)
  /\ UNCHANGED <<adapterVars, collector>>

NextResolve == ResolveCalled \/ LoaderSettles

\* The callers' arguments.
VitestContexts ==
  {NoCtx} \cup
  [present : {TRUE}, name : {"", "Test Project"}, reportsDirectory : {"", "./vitest-reports"},
   clean : {Undefined, "false"}, patterns : {"none", "exclude", "include"}]
CustomOptions ==
  {o \in [Fields -> {Absent, Undefined, "custom"}] :
     \A f \in Fields \ {"name", "logging", "sourceFilter"} : o[f] = Absent}
\* Directories for the priority of the sources: no file, one full file, a
\* partial file before a full one, a failing file before a full one.
AllAbsent == [i \in 1..Len(configFiles) |-> "absent"]
Directories ==
  {AllAbsent,
   [AllAbsent EXCEPT ![2] = "config"],
   [AllAbsent EXCEPT ![1] = "partial", ![5] = "config"],
   [AllAbsent EXCEPT ![2] = "throws", ![3] = "nothing", ![5] = "config"]}
ResolveStart(files, v, custom) ==
  [fn |-> "resolveMonocartConfig", pc |-> "start", i |-> 0, files |-> files, vitest |-> v,
   custom |-> custom, config |-> DEFAULT_CONFIG, loaded |-> <<>>, merged |-> <<>>,
   warned |-> <<>>, wrong |-> {"outputDir"}, error |-> NoError]

InitResolve ==
  /\ InitWith({"none"})
  /\ collector = IdleCollector
  /\ \E files \in Directories, v \in VitestContexts, custom \in CustomOptions :
       probe = ResolveStart(files, v, custom)

SpecResolve == InitResolve /\ [][NextResolve]_vars

\* Every directory, with no Vitest context and no custom options.
InitDiscovery ==
  /\ InitWith({"none"})
  /\ collector = IdleCollector
  /\ \E files \in [1..Len(configFiles) -> FileKinds] :
       probe = ResolveStart(files, NoCtx, NoOptions)

SpecDiscovery == InitDiscovery /\ [][NextResolve]_vars

ResolveReturned == probe.fn = "resolveMonocartConfig" /\ probe.pc = "returned"
ResolveSettled == probe.fn = "resolveMonocartConfig" /\ probe.pc \in {"returned", "rejected"}
\* The source supplies a value for field f.
CustomSupplies(f) == probe.custom[f] \notin {Absent, Undefined}
VitestSupplies(f) == ApplyVitest(NoOptions, probe.vitest)[f] = "vitest"
FileSupplies(f) ==
  probe.merged # <<>> /\ FileObject(probe.merged[1], probe.files[probe.merged[1]])[f] # Absent
HighestSupplier(f) ==
  IF CustomSupplies(f) THEN "custom"
  ELSE IF VitestSupplies(f) THEN "vitest"
  ELSE IF FileSupplies(f) THEN configFiles[probe.merged[1]]
  ELSE "default"

\* C19: the configuration resolveMonocartConfig returns has no undefined
\* field, and each field holds the value of the highest-priority source that
\* supplies it: custom options, then Vitest, then the config file, then the
\* defaults.
C19_FullyPopulatedByPriority ==
  ResolveReturned =>
    \A f \in Fields : probe.config[f] # Undefined /\ probe.config[f] = HighestSupplier(f)

\* The candidates whose load failed or yielded nothing before candidate j.
Skippable(kind) == kind \in {"absent", "throws", "throwsInvalid", "nothing"}
FirstYielding(files) ==
  LET ys == {j \in 1..Len(configFiles) : ~Skippable(files[j])}
  IN IF ys = {} THEN 0 ELSE CHOOSE j \in ys : \A k \in ys : j <= k
ExistingUpTo(files, j) ==
  SelectSeq([k \in 1..Len(configFiles) |-> k], LAMBDA k : k <= j /\ files[k] # "absent")

\* C20: the candidates are probed in the order mjs, js, cjs, ts, json; one
\* that is absent, fails to load or yields nothing is skipped and the next is
\* tried; the first that yields a configuration is the only one merged, and
\* no later one is loaded.  (A configuration that fails validation is left
\* aside: no directory with one is constrained.)
C20_FirstYieldingCandidateWins ==
  (ResolveSettled /\ \A k \in 1..Len(configFiles) : probe.files[k] # "invalid") =>
    LET j == FirstYielding(probe.files)
    IN /\ probe.pc = "returned"
       /\ probe.merged = IF j = 0 THEN <<>> ELSE <<j>>
       /\ probe.loaded = ExistingUpTo(probe.files, IF j = 0 THEN Len(configFiles) ELSE j)
       /\ Len(probe.merged) <= 1

\* Directories for validation: a wrongly typed config alone, after a failing
\* candidate, and before a valid one; failing candidates before a valid one.
ValidationDirectories ==
  {[AllAbsent EXCEPT ![2] = "invalid"],
   [AllAbsent EXCEPT ![1] = "throws", ![3] = "invalid"],
   [AllAbsent EXCEPT ![4] = "throwsInvalid", ![5] = "invalid"],
   [AllAbsent EXCEPT ![1] = "invalid", ![2] = "config"],
   [AllAbsent EXCEPT ![2] = "throws", ![5] = "config"],
   [AllAbsent EXCEPT ![2] = "throwsInvalid", ![5] = "config"],
   [AllAbsent EXCEPT ![3] = "throwsInvalid"]}
WrongSets == (SUBSET {ValidatedFields[i] : i \in 1..Len(ValidatedFields)}) \ {{}}

InitValidation ==
  /\ InitWith({"none"})
  /\ collector = IdleCollector
  /\ \E files \in ValidationDirectories, wrong \in WrongSets :
       probe = [ResolveStart(files, NoCtx, NoOptions) EXCEPT !.wrong = wrong]

SpecValidation == InitValidation /\ [][NextResolve]_vars

\* The candidate whose object is validated: the first that yields one.
Validated(files) == FirstYielding(files)

\* C21: a loaded config with a wrongly typed outputDir, reports, sourceFilter,
\* logging or onEnd makes resolveMonocartConfig reject with an error naming
\* the field, the expected type and the file, and no configuration is
\* returned; a loader that throws, whatever the reason, never makes it reject.
C21_OnlyValidationIsFatal ==
  ResolveSettled =>
    LET j == Validated(probe.files)
    IN /\ (j # 0 /\ probe.files[j] = "invalid") =>
            /\ probe.pc = "rejected"
            /\ probe.error = [kind |-> "validation", field |-> FirstWrong(probe.wrong),
                              expected |-> ExpectedType(FirstWrong(probe.wrong)),
                              file |-> configFiles[j]]
            /\ probe.merged = <<>>
       /\ probe.pc = "rejected" => probe.error.kind = "validation"

----------------------------------------------------------------------------
(* The start sequence over the protocol session: BrowserCoverageCollector
   (browser-runtime.ts) and the CDP variant of MonocartBrowserProvider
   (browser-provider.ts:298-348) *)

\* The commands startCoverage sends, in order, each awaited before the next.
StartCommands(variant, css) ==
  IF variant = "collector"
    THEN <<"Debugger.enable", "Debugger.setSkipAllPauses", "Profiler.enable",
           "Profiler.startPreciseCoverage">>
    ELSE <<"Profiler.enable", "Profiler.startPreciseCoverage">>
         \o (IF css THEN <<"CSS.enable", "CSS.startRuleUsageTracking">> ELSE <<>>)
         \o <<"Debugger.enable", "Debugger.setSkipAllPauses">>
\* The command before whose send the listeners for Debugger.scriptParsed and
\* Debugger.paused are registered: bindEvents() runs before the first command
\* of the collector, session.on(...) before Debugger.enable of the provider.
ListenersBefore(variant) == "Debugger.enable"

Sent(cmd, k) == [ev |-> "send", cmd |-> cmd, by |-> k]
Acked(cmd, k) == [ev |-> "ack", cmd |-> cmd, by |-> k]
Rejected(cmd, k) == [ev |-> "reject", cmd |-> cmd, by |-> k]
Listening(k) == [ev |-> "on", cmd |-> "Debugger.scriptParsed", by |-> k]

\* Call k sends the command of step n, registering the listeners first where
\* the code does.
SendStep(sess, k, n) ==
  LET cmd == StartCommands(sess.variant, sess.css)[n]
  IN [sess EXCEPT
        !.call[k] = [pc |-> "await", step |-> n],
        !.log = @ \o (IF cmd = ListenersBefore(sess.variant) THEN <<Listening(k)>> ELSE <<>>)
                  \o <<Sent(cmd, k)>>]

IdleStart == [pc |-> "idle", step |-> 0]
\* A page with the collector not yet created (browser-runtime.ts:222), or a
\* provider instance (browser-provider.ts:245-247); cdp says whether
\* window.__vitest_browser_runner__.cdp exists.
InitSession ==
  /\ InitWith({"none"})
  /\ probe = IdleProbe
  /\ \E variant \in {"collector", "provider"}, cdp \in BOOLEAN, css \in BOOLEAN :
       /\ variant = "collector" => ~css
       /\ collector = [phase |-> "session", variant |-> variant, cdp |-> cdp, css |-> css,
                       exists |-> variant = "provider", started |-> FALSE,
                       call |-> [k \in 1..MaxStartCalls |-> IdleStart], log |-> <<>>,
                       takes |-> 0, emptyTakes |-> 0]

\* startCoverage call k runs to its first await or returns.  The collector
\* (browser-runtime.ts:126-136, created on the first call of the module's
\* startCoverage, lines 224-230) sets isStarted before it sends anything; the
\* provider (browser-provider.ts:298-314) tests coverageEnabled and sets it
\* only at the end.
SessionStartCalled(k) ==
  /\ collector.phase = "session"
  /\ collector.call[k].pc = "idle"
  /\ \A j \in 1..(k - 1) : collector.call[j].pc # "idle"
  /\ LET sess == [collector EXCEPT !.exists = TRUE]
     IN collector' =
          IF ~sess.cdp \/ sess.started
            THEN [sess EXCEPT !.call[k] = [pc |-> "skipped", step |-> 0]]
            ELSE SendStep([sess EXCEPT !.started = (sess.variant = "collector")], k, 1)
  /\ UNCHANGED <<adapterVars, probe>>

\* The command call k awaits is acknowledged: the next one is sent, or the
\* sequence is complete (browser-provider.ts:344 sets coverageEnabled).
SessionCommandAcked(k) ==
  /\ collector.phase = "session"
  /\ collector.call[k].pc = "await"
  /\ LET n    == collector.call[k].step
         cmds == StartCommands(collector.variant, collector.css)
         sess == [collector EXCEPT !.log = Append(@, Acked(cmds[n], k))]
     IN collector' =
          IF n < Len(cmds) THEN SendStep(sess, k, n + 1)
          ELSE [sess EXCEPT !.call[k] = [pc |-> "done", step |-> n],
                            !.started = TRUE]
  /\ UNCHANGED <<adapterVars, probe>>

\* The command call k awaits is rejected: the collector's startCoverage
\* rejects with isStarted left set; the provider's catch
\* (browser-provider.ts:345-347) logs and leaves coverageEnabled false.
SessionCommandRejected(k) ==
  /\ collector.phase = "session"
  /\ collector.call[k].pc = "await"
  /\ LET n    == collector.call[k].step
         cmds == StartCommands(collector.variant, collector.css)
     IN collector' = [collector EXCEPT !.call[k] = [pc |-> "failed", step |-> n],
                                       !.log = Append(@, Rejected(cmds[n], k))]
  /\ UNCHANGED <<adapterVars, probe>>

\* takeCoverage of the module (browser-runtime.ts:239-242) and of the
\* collector up to its first await (lines 160-165): [] without a request when
\* there is no collector, no cdp or isStarted is false, else the snapshot
\* request is sent.
SessionTakeCalled ==
  /\ collector.phase = "session"
  /\ collector.variant = "collector"
  /\ collector.takes < MaxSessionTakes
  /\ collector' =
       IF ~collector.exists \/ ~collector.cdp \/ ~collector.started
         THEN [collector EXCEPT !.takes = @ + 1, !.emptyTakes = @ + 1]
         ELSE [collector EXCEPT !.takes = @ + 1,
                                !.log = Append(@, Sent("Profiler.takePreciseCoverage", 0))]
  /\ UNCHANGED <<adapterVars, probe>>

NextSession ==
  \/ \E k \in 1..MaxStartCalls : SessionStartCalled(k)
  \/ \E k \in 1..MaxStartCalls : SessionCommandAcked(k)
  \/ \E k \in 1..MaxStartCalls : SessionCommandRejected(k)
  \/ SessionTakeCalled

SpecSession == InitSession /\ [][NextSession]_vars

InSession == collector.phase = "session"
LogIndexes(ev, cmd) ==
  {i \in 1..Len(collector.log) : collector.log[i].ev = ev /\ collector.log[i].cmd = cmd}

\* C22: the start step (Profiler.startPreciseCoverage sent, the script-parsed
\* and paused listeners registered) is performed by the first startCoverage
\* call only; no later call sends a start command or registers a listener.
C22_StartIsIdempotent ==
  InSession =>
    \A i \in 1..Len(collector.log) :
      (collector.log[i].ev \in {"send", "on"} /\ collector.log[i].by # 0)
        => collector.log[i].by = 1

\* C30: no Profiler.takePreciseCoverage is sent before
\* Profiler.startPreciseCoverage has been acknowledged.
C30_NoSnapshotBeforeStartAcked ==
  InSession =>
    \A i \in LogIndexes("send", "Profiler.takePreciseCoverage") :
      \E j \in LogIndexes("ack", "Profiler.startPreciseCoverage") : j < i

----------------------------------------------------------------------------
(* provider.ts: the transform cache of a suite *)

\* Suites of every transform mode (none, one with a cache, one without) in a
\* project the host knows and in one it does not.
ModeMetas ==
  {Meta(Coverage("wrapped", SuiteEntries), mode, project) :
     mode \in {Undefined, "ssr", "web"}, project \in {"test", "other"}}

InProcSuiteRunAnyMode(k) == k <= MaxModeSuites /\ InProcOnAfterSuiteRunWith(k, ModeMetas)

InitEnrich == InitWith({"inproc"}) /\ RuntimeIdle

NextEnrich ==
  \/ \E k \in CallIds : InProcSuiteRunAnyMode(k)
  \/ \E k \in CallIds : AddAfterInit(k)
  \/ \E k \in CallIds : EngineAddSettles(k)

SpecEnrich == InitEnrich /\ [][NextEnrich]_vars

\* The cache the claim selects: the one keyed by the suite's mode when the
\* node has it, else the node's single global cache.
ModeCacheExists(meta) ==
  TruthyStr(meta.transformMode) /\ <<NodeOf(meta), meta.transformMode>> \in DOMAIN InitialCtxCache
ClaimedCache(meta) ==
  IF ModeCacheExists(meta) THEN InitialCtxCache[<<NodeOf(meta), meta.transformMode>>]
  ELSE InitialCtxCache[<<NodeOf(meta), GlobalKey>>]

\* C23: the paths of a suite are looked up in the cache keyed by the suite's
\* transform mode, of the project named by the suite or else of the host's
\* global node, and in the node's global cache whenever no cache keyed by
\* that mode exists.
C23_ModeCacheElseGlobal ==
  \A k \in InProcForwarded :
    addTask[k].input = EnrichBatch(SuiteEntries, ClaimedCache(calls[k].meta))

\* Entry i of the snapshot has a source already, has a url that does not
\* parse, or has a path that the cache selected for the suite does not hold.
PassedThrough(k, i) ==
  \/ TruthyStr(SuiteEntries[i].source)
  \/ ~SuiteEntries[i].url.valid
  \/ SlotOf(calls[k].meta) \notin DOMAIN InitialCtxCache
  \/ SuiteEntries[i].url.pathname \notin DOMAIN InitialCtxCache[SlotOf(calls[k].meta)]

\* C24: an entry that already has a source, whose url cannot be parsed or
\* whose path has no transform-cache match reaches the reporter as it was in
\* the snapshot, at its position, and the suite's batch is forwarded: such an
\* entry raises no error.
C24_UnmatchedEntriesUnchanged ==
  \A k \in SuiteCalls :
    (adapter = "inproc" /\ reporterPresent /\ calls[k].meta.coverage.shape = "wrapped") =>
      /\ k \in AddInvoked
      /\ Len(addTask[k].input) = Len(SuiteEntries)
      /\ \A i \in 1..Len(SuiteEntries) :
           PassedThrough(k, i) => addTask[k].input[i] = SuiteEntries[i]

\* A suite of mode "web" in the unknown project was forwarded: none of its
\* five entries has a cache match.
C24_Witness ==
  \E k \in InProcForwarded :
    /\ calls[k].meta.transformMode = "web"
    /\ calls[k].meta.projectName = "other"
    /\ \A i \in 1..Len(SuiteEntries) : PassedThrough(k, i)
    /\ addTask[k].input[2] = EntryBadUrl
    /\ addTask[k].input[3] = EntryNoFn
    /\ addTask[k].input[4] = EntryOffset

\* C25: the host's transform cache is as it was before any suite ran: no
\* entry added or removed, no cached code or map changed.
C25_TransformCacheUntouched == ctxCache = InitialCtxCache

----------------------------------------------------------------------------
(* reporter.ts: the collected entries *)

\* The addCoverageData calls a step starts, the one generateReport makes for
\* an array argument included.
AddsStartedNow == {k \in CallIds : addTask[k].pc = "idle" /\ addTask'[k].pc # "idle"}

\* C26: the collection only grows, and only by the normalized batch of the
\* addCoverageData call that starts: no step removes, reorders or rewrites an
\* entry, whether or not the engine can be constructed or its add() fails, so
\* the collection is the concatenation, in call order, of the normalized
\* batches submitted so far.
C26_CollectionAppendOnly ==
  [][IF AddsStartedNow = {}
       THEN coverageDataCollection' = coverageDataCollection
       ELSE \E k \in AddsStartedNow :
              /\ AddsStartedNow = {k}
              /\ coverageDataCollection' =
                   coverageDataCollection \o
                     [i \in 1..Len(addTask'[k].input) |->
                        [addTask'[k].input[i] EXCEPT
                           !.functions = IF @.kind = "array" THEN @
                                         ELSE [kind |-> "array", items |-> <<>>]]]]_vars

\* The first batch met a failing engine construction, the second a failing
\* add(), and the collection holds both, in call order.
C26_Witness ==
  /\ adapter = "direct"
  /\ addTask[1].pc = "rejected" /\ addTask[1].initFailed
  /\ addTask[2].pc = "rejected" /\ ~addTask[2].initFailed
  /\ addTask[1].input = <<EntryWith(FnUndefined)>>
  /\ addTask[2].input = <<EntryWith(FnArray), EntryWith(FnNull)>>
  /\ coverageDataCollection =
       <<EntryWith(FnEmptyArray), EntryWith(FnArray), EntryWith(FnEmptyArray)>>

----------------------------------------------------------------------------
(* browser-provider.ts: the drain of the add queue *)

InitDrain == InitWith({"browser"}) /\ RuntimeIdle

NextDrain ==
  \/ \E k \in CallIds : BrowserOnAfterSuiteRun(k)
  \/ \E k \in CallIds : BrowserReportCoverage(k)
  \/ \E k \in CallIds : BrowserDrainResume(k)
  \/ \E k \in CallIds : AddAfterInit(k)
  \/ \E k \in CallIds : EngineAddSettles(k)
  \/ \E k \in CallIds : GenAfterInit(k)
  \/ \E k \in CallIds : EngineGenerateSettles(k)

\* Every addCoverageData that was started settles (initializeMCR and the
\* engine's add() answer), and the job queue runs a continuation whose promise
\* has settled.  The host makes finitely many calls: at most MaxCalls.
DrainFairness ==
  \A k \in CallIds :
    /\ WF_vars(AddAfterInit(k))
    /\ WF_vars(EngineAddSettles(k))
    /\ WF_vars(BrowserDrainResume(k))

SpecDrain == InitDrain /\ [][NextDrain]_vars /\ DrainFairness

Draining(k) == calls[k].kind = "report" /\ calls[k].pc = "draining"

\* C27: the shared queue never rejects, whatever addCoverageData does, and a
\* reportCoverage call that entered the drain loop eventually leaves it and
\* invokes generateReport.
C27_DrainCompletes ==
  /\ [](\A n \in 0..Len(addQueue) : ChainState(n) # "rejected")
  /\ \A k \in CallIds : Draining(k) ~> (genTask[k].pc # "idle")

\* The first suite's addCoverageData rejected, reportCoverage entered the
\* drain, a later suite's batch was added, and the report call went on to
\* generateReport.
C27_Witness ==
  /\ adapter = "browser"
  /\ calls[1].kind = "suite" /\ addTask[1].pc = "rejected"
  /\ calls[2].kind = "report"
  /\ calls[3].kind = "suite" /\ addTask[3].pc = "resolved"
  /\ addQueue = <<1, 3>>
  /\ genTask[2].pc # "idle"

\* C28: once the latch is set no onAfterSuiteRun of the browser adapter calls
\* addCoverageData, so the engine's add() is never invoked after the engine's
\* generate() was.
C28_NoAddAfterLatch ==
  /\ [][(adapter = "browser" /\ didGenerateReports) => AddsStartedNow = {}]_vars
  /\ [](adapter = "browser" =>
          \A m, n \in 1..Len(engineLog) :
            (m < n /\ engineLog[m].op = "generate") => engineLog[n].op # "add")

\* C29: in the browser adapter the latch is set when generateReport is
\* attempted and is never cleared, a reportCoverage call that starts with the
\* latch set returns without generating, and generateReport is attempted at
\* most once on the adapter, whether it succeeds or fails.
C29_LatchedSingleAttempt ==
  /\ [][didGenerateReports => didGenerateReports']_vars
  /\ [][\A k \in CallIds :
          (adapter = "browser" /\ didGenerateReports /\ calls[k].kind = "idle"
             /\ calls'[k].kind = "report") => calls'[k].pc = "resolved"]_vars
  /\ [](adapter = "browser" => (GenInvoked # {} => didGenerateReports))
  /\ [](adapter = "browser" => Cardinality(GenInvoked) <= 1)

====
